---- MODULE Spec2Model ----
(***************************************************************************)
(* Chat context / summarization pipeline of the smart notes backend:       *)
(* apps/notes/services/chat_service.py, gemini_service.py, models.py and   *)
(* the chat endpoints of apps/notes/views.py.                              *)
(*                                                                         *)
(* The specifications share the definitions below:                         *)
(*   Spec       one chat served by one request at a time; every action is  *)
(*              a whole request handler of ChatViewSet                     *)
(*   ConcSpec   two add_message requests on the same chat, interleaved at  *)
(*              the level of their database statements                     *)
(*   CtxSpec    get_chat_context applied to histories of every length      *)
(*   GenSpec    the retry loop of GeminiSummarizer.generate_summary;       *)
(*              GenLiveSpec adds that the call is never suspended          *)
(*   ClientSpec the three callers of the provider client, with and without *)
(*              a configured key                                           *)
(*   NoteSpec   one note served by one request at a time; every action is  *)
(*              a whole request handler of NoteViewSet                     *)
(*   NoteConcSpec  an update and a summarize request on the same note,     *)
(*              interleaved at the level of their database statements      *)
(*   ReadSpec   the read endpoints of ChatViewSet (context, history,       *)
(*              statistics, search, list) between appends to one chat      *)
(*   ChatEditSpec  the life of one chat through ChatViewSet: create,       *)
(*              update, destroy, add_message, update_summary               *)
(*   TagSpec    the tags of two users through TagViewSet                   *)
(*   PromptSpec one request (add_message, ai_response, update_summary) on  *)
(*              a chat of any length, with the prompts it sends            *)
(*   ExtSpec    _extractive_summary applied to texts given character by    *)
(*              character                                                  *)
(*   BoundarySpec  the request bodies of add_message, ai_response and note *)
(*              creation through their serializers, blank ones included    *)
(*   OwnerSpec  the list, search and retrieve requests of two users over   *)
(*              the notes and chats both of them hold                      *)
(***************************************************************************)
EXTENDS Integers, Sequences, FiniteSets, TLC

VARIABLES
    chat,       \* the persisted Chat row (committed state of the database)
    messages,   \* the persisted ChatMessage rows of the chat, in insertion order
    last,       \* what the last finished request did and answered
    reqs,       \* ConcSpec, NoteConcSpec: the requests in flight, each with its position
    ctx,        \* CtxSpec: the input and the result of get_chat_context
    gen,        \* GenSpec: the state of one generate_summary call
    settings,   \* the configuration GeminiSummarizer is constructed from
    note,       \* the persisted Note row
    db          \* the rows of several owners: tags, and the chats search_chats reads

vars == <<chat, messages, last, reqs, ctx, gen, settings, note, db>>

(***************************************************************************)
(* Bounds of the model.                                                    *)
(***************************************************************************)
MaxMsgs == 11          \* Spec: messages a chat may hold
MaxHistory == 22       \* CtxSpec: longest history given to get_chat_context
MaxRetriesCfg == 3     \* GenSpec: largest configured GEMINI_MAX_RETRIES
MaxInitMsgs == 9       \* ConcSpec: most messages the chat holds when the requests arrive
MaxClientMsgs == 4     \* ClientSpec: messages a chat may hold
MaxClientRetries == 2  \* ClientSpec, NoteSpec: largest configured GEMINI_MAX_RETRIES
MaxReadMsgs == 2       \* ReadSpec: messages the chat may hold
MaxEditMsgs == 10      \* ChatEditSpec: messages the chat may hold
MaxTagId == 4          \* TagSpec: tag rows ever inserted
MaxPromptHistory == 22 \* PromptSpec: longest history a request finds

(***************************************************************************)
(* Program constants.                                                      *)
(***************************************************************************)
max_context_messages == 20
summarize_threshold == 10
SHORT_CONTENT_WORDS == 20
DEFAULT_MAX_LENGTH == 150
CHARS_PER_WORD == 5
CONTEXT_FALLBACK_CHARS == 500
CHARS_PER_TOKEN == 4
GEMINI_MAX_RETRIES == 3
SUMMARY_PREFIX_CHARS == 31

(***************************************************************************)
(* Texts.  A text is identified by where it comes from (tag, n) and by how *)
(* many of its characters are kept (len); None is the null column value.   *)
(***************************************************************************)
Text(tag, n, len) == [tag |-> tag, n |-> n, len |-> len]
None == Text("None", 0, 0)
\* faulty variant: the empty string counts as set
Truthy_not_none(t) == t.tag # "None"

\* Python truthiness of an optional string: neither None nor ""
Truthy(t) == t.tag # "None" /\ t.len > 0
\* faulty variant: nothing is cut
Slice_none(t, k) == t

\* t[:k]
Slice(t, k) == [t EXCEPT !.len = IF t.len > k THEN k ELSE t.len]

Roles == {"user", "assistant", "system"}
Upper(role) ==
    CASE role = "user" -> "USER"
      [] role = "assistant" -> "ASSISTANT"
      [] role = "system" -> "SYSTEM"

\* inputs of the requests: the text of a message, and the role given to
\* add_message (the service treats the three roles alike)
UserContents == {Text("q", 0, 9)}
InputRoles == {"user"}

(***************************************************************************)
(* The provider.  One outcome per call: a reply of some length (an empty   *)
(* reply included) or an error raised by the client library.               *)
(***************************************************************************)
ReplyLens == {0, 600}
Errors == {"timeout"}
Outcomes ==
    {[ok |-> TRUE, len |-> l, err |-> "none", pad |-> 0] : l \in ReplyLens}
        \cup {[ok |-> FALSE, len |-> 0, err |-> e, pad |-> 0] : e \in Errors}
\* a reply made of whitespace only: len characters, all of them padding
BlankReply == [ok |-> TRUE, len |-> 2, err |-> "none", pad |-> 2]
Failed(o) == ~o.ok \/ o.len = 0
\* response.text.strip(): the whitespace around the reply (o.pad characters) is cut
Strip(o) == o.len - o.pad
\* the outcomes of a call that follows a call with outcome o: a call that is
\* never made (the one before it failed) draws no outcome of its own
After(o) == IF Failed(o) THEN {o} ELSE Outcomes

\* GeminiSummarizer._call_gemini_api: the reply text, or the error raised
call_gemini_api(prompt, o) ==
    IF ~o.ok THEN [exc |-> "ProviderError", details |-> o.err, text |-> None]
    ELSE IF o.len = 0
        THEN [exc |-> "AIServiceException", details |-> "Empty response from Gemini API",
              text |-> None]
    ELSE [exc |-> "none", details |-> "none", text |-> Text(prompt.kind, prompt.n, Strip(o))]

(***************************************************************************)
(* Models (apps/notes/models.py).                                          *)
(***************************************************************************)
\* Chat.objects.create: a chat is created empty
NewChat ==
    [summary |-> None, context_summary |-> None, message_count |-> 0, last_message_at |-> 0]

\* faulty variant: the estimate is rounded up
estimate_tokens_ceil(content) == (content.len + CHARS_PER_TOKEN - 1) \div CHARS_PER_TOKEN

\* ChatMessage.estimate_tokens
estimate_tokens(content) == content.len \div CHARS_PER_TOKEN

Max(a, b) == IF a >= b THEN a ELSE b
RECURSIVE LatestCreated(_)
LatestCreated(rows) ==
    IF rows = <<>> THEN 0 ELSE Max(rows[Len(rows)].created_at, LatestCreated(SubSeq(rows, 1, Len(rows) - 1)))

\* timezone.now(): strictly later than every timestamp already stored
Now(rows, c) == 1 + Max(LatestCreated(rows), c.last_message_at)

\* Model.save(update_fields=...): the named columns of the row take the object's values
SaveFields(row, obj, fields) ==
    [f \in DOMAIN row |-> IF f \in fields THEN obj[f] ELSE row[f]]

\* faulty variant: the timestamp is refreshed, the counter is not
increment_message_count_stale(c, t) == [c EXCEPT !.last_message_at = t]

\* Chat.increment_message_count, the in-memory part
increment_message_count(c, t) ==
    [c EXCEPT !.message_count = @ + 1, !.last_message_at = t]

\* faulty variant: the condensed context is computed and not kept
update_context_skip(c, context) == c

\* faulty variant: the full summary is computed and not kept
update_summary_skip(c, new_summary) == c

\* Chat.update_summary / Chat.update_context, the in-memory part
update_summary(c, new_summary) == [c EXCEPT !.summary = new_summary]
update_context(c, context) == [c EXCEPT !.context_summary = context]

(***************************************************************************)
(* Querysets.                                                              *)
(***************************************************************************)
\* rows without the one at position i
RemoveAt(rows, i) == SubSeq(rows, 1, i - 1) \o SubSeq(rows, i + 1, Len(rows))
\* position of an earliest-created row (the first such in storage order)
EarliestAt(rows) ==
    CHOOSE i \in 1..Len(rows) :
        /\ \A j \in 1..Len(rows) : rows[i].created_at <= rows[j].created_at
        /\ \A j \in 1..(i - 1) : rows[j].created_at > rows[i].created_at
\* .order_by('created_at'), also Meta.ordering of ChatMessage
InCreatedOrder(rows) ==
    \A i \in 1..(Len(rows) - 1) : rows[i].created_at <= rows[i + 1].created_at
RECURSIVE OrderByCreatedAt(_)
OrderByCreatedAt(rows) ==
    IF InCreatedOrder(rows) THEN rows
    ELSE LET i == EarliestAt(rows)
         IN  <<rows[i]>> \o OrderByCreatedAt(RemoveAt(rows, i))
\* faulty variant: the rows come in storage order
DefaultOrdering_none(rows) == rows

\* chat.messages.all(): Meta.ordering of ChatMessage is ['created_at']
DefaultOrdering(rows) == OrderByCreatedAt(rows)

\* faulty variant: the slice is not applied
Limit_none(rows, k) == rows

\* queryset[:k]
Limit(rows, k) == SubSeq(rows, 1, IF Len(rows) < k THEN Len(rows) ELSE k)

(***************************************************************************)
(* ChatService (apps/notes/services/chat_service.py).  The methods thread  *)
(* a world w: the database as the request sees it (chat, messages), the    *)
(* Chat instance the request holds in memory (mem), the exception raised   *)
(* (exc, details), the value returned (ret) and a log of what was done:     *)
(* provider calls made (calls), update_chat_summary runs (runs), which of  *)
(* the provider calls failed (failed), one entry per append (appends) and  *)
(* the prompts given to the provider, in the order of the calls (prompts). *)
(***************************************************************************)
World(c, rows) ==
    [chat |-> c, messages |-> rows, mem |-> c, exc |-> "none", details |-> "none",
     ret |-> None, calls |-> 0, runs |-> 0, failed |-> {}, appends |-> <<>>,
     prompts |-> <<>>]

\* the value of a one-element set; {e(x) : x \in {v}} binds x to the value v, so
\* that a result used several times is computed once
Only(S) == CHOOSE x \in S : TRUE

Raise(w, exc, details) == [w EXCEPT !.exc = exc, !.details = details, !.ret = None]

\* faulty variant: the message appended last is left out
build_conversation_text_stale(rows) ==
    [i \in 1..(Len(rows) - 1) |-> [role |-> Upper(rows[i].role), content |-> rows[i].content]]

\* ChatService._build_conversation_text: one "ROLE: content" block per message
build_conversation_text(rows) ==
    [i \in 1..Len(rows) |-> [role |-> Upper(rows[i].role), content |-> rows[i].content]]

SummaryPrompt(conversation) ==
    [kind |-> "summary", n |-> Len(conversation), entries |-> conversation]
ContextPrompt(full_summary) ==
    [kind |-> "context", n |-> full_summary.n, entries |-> <<>>]

\* faulty variant: the fallback is the whole full summary
generate_context_summary_untruncated(full_summary, o) ==
    Only({IF r.exc = "none" THEN r.text ELSE full_summary :
          r \in {call_gemini_api(ContextPrompt(full_summary), o)}})

\* ChatService._generate_context_summary: the condensed text, or on any failure
\* the first 500 characters of the full summary
generate_context_summary(full_summary, o) ==
    Only({IF r.exc = "none" THEN r.text ELSE Slice(full_summary, CONTEXT_FALLBACK_CHARS) :
          r \in {call_gemini_api(ContextPrompt(full_summary), o)}})

\* faulty variant: the failure is logged and an empty summary returned
summary_failure_swallowed(w, details) == [w EXCEPT !.ret = Text("empty", 0, 0)]

\* faulty variant: the failure also discards the summary stored before
summary_failure_clears(w, details) ==
    [Raise(w, "AIServiceException", details) EXCEPT !.chat = update_summary(@, None)]

\* the except clause of update_chat_summary: log, raise AIServiceException
summary_failure(w, details) == Raise(w, "AIServiceException", details)

\* update_chat_summary after the full summary r.text came back: chat.update_summary,
\* _generate_context_summary, chat.update_context
store_summaries(w, r, o2) ==
    LET m1 == update_summary(w.mem, r.text)
        c1 == SaveFields(w.chat, m1, {"summary"})
    IN  Only({[w EXCEPT !.mem = update_context(m1, cs),
                        !.chat = SaveFields(c1, update_context(m1, cs), {"context_summary"}),
                        !.calls = @ + 1,
                        !.failed = IF Failed(o2) THEN @ \cup {"context"} ELSE @,
                        !.prompts = Append(@, ContextPrompt(r.text)),
                        !.ret = r.text] :
              cs \in {generate_context_summary(r.text, o2)}})

\* faulty variant: an empty conversation is summarized like any other
NoMessages_never(rows) == FALSE

\* "if not messages" in update_chat_summary
NoMessages(rows) == rows = <<>>

\* update_chat_summary once the messages are read
summarize_rows(w, rows, o1, o2) ==
    IF NoMessages(rows) THEN [w EXCEPT !.runs = @ + 1, !.ret = Text("empty", 0, 0)]
    ELSE Only({Only({IF r.exc # "none"
                     THEN summary_failure([w EXCEPT !.runs = @ + 1, !.calls = @ + 1,
                                                    !.failed = @ \cup {"summary"},
                                                    !.prompts = Append(@, prompt)], r.details)
                     ELSE Only({store_summaries(w1, r, o2) :
                                w1 \in {[w EXCEPT !.runs = @ + 1, !.calls = @ + 1,
                                                  !.prompts = Append(@, prompt)]}}) :
                     r \in {call_gemini_api(prompt, o1)}}) :
               prompt \in {SummaryPrompt(build_conversation_text(rows))}})

\* ChatService.update_chat_summary(chat); o1 and o2 are the outcomes of the
\* provider calls it makes (full summary, condensed context)
update_chat_summary(w, o1, o2) ==
    Only({summarize_rows(w, rows, o1, o2) : rows \in {OrderByCreatedAt(w.messages)}})

\* faulty variant: the check fires from the threshold on
SummarizeTrigger_from(auto_summarize, message_count) ==
    auto_summarize /\ message_count >= summarize_threshold

\* faulty variant: the check ignores the auto_summarize argument
SummarizeTrigger_ignoring_flag(auto_summarize, message_count) ==
    message_count % summarize_threshold = 0

\* the condition of the threshold check in add_message
SummarizeTrigger(auto_summarize, message_count) ==
    auto_summarize /\ message_count % summarize_threshold = 0

\* ChatMessage.objects.create, estimate_tokens, save(update_fields=['tokens_used'])
CreateMessage(rows, role, content, t) ==
    Append(rows, [role |-> role, content |-> content, summary |-> None,
                  tokens_used |-> estimate_tokens(content), created_at |-> t])

\* @transaction.atomic: an exception leaving the block undoes its writes to the
\* database; the objects in memory keep what was assigned to them
Rollback(w0, w) == [w EXCEPT !.chat = w0.chat, !.messages = w0.messages]

\* add_message up to the threshold check: the row is created, the counter
\* incremented and saved
append_and_count(w, role, content) ==
    Only({Only({[w EXCEPT !.messages = rows, !.mem = m1,
                          !.chat = SaveFields(w.chat, m1, {"message_count", "last_message_at"})] :
                m1 \in {increment_message_count(w.mem, Now(rows, w.mem))}}) :
          rows \in {CreateMessage(w.messages, role, content, Now(w.messages, w.mem))}})

\* add_message leaving its transaction: w0 at entry, w1 after the append, w2 after
\* the threshold check
leave_add_message(w0, w1, w2, role, auto_summarize) ==
    LET entry == [role |-> role, auto |-> auto_summarize, count |-> w1.mem.message_count,
                  summarized |-> w2.runs > w1.runs, failed |-> "summary" \in w2.failed]
    IN  IF w2.exc # "none"
        THEN Rollback(w0, [w2 EXCEPT !.appends = Append(@, entry)])
        ELSE [w2 EXCEPT !.appends = Append(@, entry),
                        !.ret = w1.messages[Len(w1.messages)].content]

\* ChatService.add_message(chat, role, content, auto_summarize)
add_message(w, role, content, auto_summarize, o1, o2) ==
    Only({Only({leave_add_message(w, w1, w2, role, auto_summarize) :
                w2 \in {IF SummarizeTrigger(auto_summarize, w1.mem.message_count)
                        THEN update_chat_summary(w1, o1, o2)
                        ELSE w1}}) :
          w1 \in {append_and_count(w, role, content)}})

\* f"Previous conversation summary: {chat.context_summary}"
PrefixedSummary(t) ==
    [tag |-> "Previous conversation summary", n |-> t.n, len |-> SUMMARY_PREFIX_CHARS + t.len,
     of |-> t.tag]

\* ChatService.get_full_chat_history(chat)
get_full_chat_history(rows) ==
    Only({[i \in 1..Len(all) |->
             [role |-> all[i].role, content |-> all[i].content, summary |-> all[i].summary,
              tokens_used |-> all[i].tokens_used, created_at |-> all[i].created_at]] :
          all \in {DefaultOrdering(rows)}})

\* ChatService.get_chat_context(chat, include_summary)
get_chat_context(c, rows, include_summary) ==
    LET head == IF include_summary /\ Truthy(c.context_summary)
                THEN <<[role |-> "system", content |-> PrefixedSummary(c.context_summary)]>>
                ELSE <<>>
    IN  Only({head \o [i \in 1..Len(recent) |->
                          [role |-> recent[i].role, content |-> recent[i].content]] :
              recent \in {Limit(OrderByCreatedAt(rows), max_context_messages)}})

\* ChatService._build_chat_prompt
build_chat_prompt(context) ==
    [kind |-> "reply", n |-> 0,
     entries |-> [i \in 1..Len(context) |->
                     [role |-> Upper(context[i].role), content |-> context[i].content]]]

\* faulty variant: the whole turn runs in one transaction, undone on failure
response_failure_undo(w0, w, details) ==
    [Raise(w, "AIServiceException", details) EXCEPT !.chat = w0.chat, !.messages = w0.messages]

\* the except clause of get_ai_response: log, raise AIServiceException; the
\* transactions of the add_message calls made before are already closed
\* (w0 is the world the call started in)
response_failure(w0, w, details) == Raise(w, "AIServiceException", details)

\* the context of the turn: the chat context plus the new user message
turn_context(w, user_message, use_context) ==
    IF use_context
    THEN Append(get_chat_context(w.mem, w.messages, TRUE),
                [role |-> "user", content |-> user_message])
    ELSE <<[role |-> "user", content |-> user_message]>>

\* faulty variant: a failed completion call leaves an assistant message that
\* reports the error
answer_turn_placeholder(w0, w, r, o1, o2) ==
    IF r.exc # "none"
    THEN response_failure(w0,
             add_message([w EXCEPT !.calls = @ + 1, !.failed = @ \cup {"completion"}],
                         "assistant", Text("error", 0, 5), FALSE, o1, o2),
             r.details)
    ELSE Only({IF w3.exc # "none" THEN response_failure(w0, w3, w3.details)
               ELSE [w3 EXCEPT !.ret = r.text] :
               w3 \in {Only({add_message(w2, "assistant", r.text, TRUE, o1, o2) :
                             w2 \in {[w EXCEPT !.calls = @ + 1]}})}})

\* get_ai_response after the completion call returned r: the assistant append
answer_turn(w0, w, r, o1, o2) ==
    IF r.exc # "none"
    THEN response_failure(w0, [w EXCEPT !.calls = @ + 1, !.failed = @ \cup {"completion"}],
                          r.details)
    ELSE Only({IF w3.exc # "none" THEN response_failure(w0, w3, w3.details)
               ELSE [w3 EXCEPT !.ret = r.text] :
               w3 \in {Only({add_message(w2, "assistant", r.text, TRUE, o1, o2) :
                             w2 \in {[w EXCEPT !.calls = @ + 1]}})}})

\* ChatService.get_ai_response(chat, user_message, use_context); oc is the outcome
\* of the completion call of the turn
get_ai_response(w, user_message, use_context, oc, o1, o2) ==
    Only({IF w1.exc # "none" THEN response_failure(w, w1, w1.details)
          ELSE Only({Only({answer_turn(w, [w1 EXCEPT !.prompts = Append(@, prompt)],
                                       r, o1, o2) :
                           r \in {call_gemini_api(prompt, oc)}}) :
                     prompt \in {build_chat_prompt(
                                    turn_context(w1, user_message, use_context))}}) :
          w1 \in {add_message(w, "user", user_message, FALSE, o1, o2)}})

(***************************************************************************)
(* Spec: the chat endpoints of ChatViewSet (apps/notes/views.py), one      *)
(* request at a time.  Each action is a whole request: get_object() loads  *)
(* the chat, the service method runs, the response is built.  An           *)
(* AIServiceException is answered 503, by the view's except clause or by   *)
(* custom_exception_handler.                                               *)
(***************************************************************************)
Idle ==
    [op |-> "none", status |-> 0, exc |-> "none", details |-> "none", ret |-> None,
     calls |-> 0, runs |-> 0, failed |-> {}, appends |-> <<>>]

Answer(op, w, ok_status) ==
    [op |-> op, status |-> IF w.exc = "none" THEN ok_status ELSE 503, exc |-> w.exc,
     details |-> w.details, ret |-> w.ret, calls |-> w.calls, runs |-> w.runs,
     failed |-> w.failed, appends |-> w.appends]

NoReqs == <<>>
Reqs == {1, 2}
NoCtx == [rows |-> <<>>, include_summary |-> FALSE, context_summary |-> None,
          done |-> FALSE, out |-> <<>>, hdone |-> FALSE, history |-> <<>>,
          tdone |-> FALSE, turn |-> <<>>]
NoGen ==
    [pc |-> "none", api_key |-> FALSE, content |-> [tag |-> "note", n |-> 0, len |-> 0, words |-> 0],
     max_length |-> 0, max_retries |-> 0, attempt |-> 0, errors |-> <<>>, sleeps |-> <<>>,
     result |-> [kind |-> "none", source |-> "none", exc |-> "none", details |-> "none",
                 len |-> 0]]

\* settings.GEMINI_API_KEY (set or not) and settings.GEMINI_MAX_RETRIES, as
\* GeminiSummarizer.__init__ reads them
Settings(api_key, max_retries) == [api_key |-> api_key, max_retries |-> max_retries]
DefaultSettings == Settings(TRUE, GEMINI_MAX_RETRIES)
\* no tag, no searchable chat and no listed note stored
NoDb == [tags |-> {}, chats |-> {}, notes |-> {}]
\* no note stored
NoNote == [exists |-> FALSE, title |-> "none", content |-> None, summary |-> None, tags |-> {}]

Init ==
    /\ db = NoDb
    /\ settings = DefaultSettings
    /\ note = NoNote
    /\ chat = NewChat
    /\ messages = <<>>
    /\ last = Idle
    /\ reqs = NoReqs
    /\ ctx = NoCtx
    /\ gen = NoGen

\* POST /api/chats/{id}/add_message/
AddMessage ==
    \E role \in InputRoles, content \in UserContents, o1 \in Outcomes : \E o2 \in After(o1) :
        \E w0 \in {World(chat, messages)} :
        \E w \in {add_message(w0, role, content, TRUE, o1, o2)} :
            /\ Len(messages) < MaxMsgs
            /\ chat' = w.chat
            /\ messages' = w.messages
            /\ last' = Answer("add_message", w, 201)
            /\ UNCHANGED <<reqs, ctx, gen, settings, note, db>>

\* POST /api/chats/{id}/ai_response/
AiResponse ==
    \E message \in UserContents, use_context \in BOOLEAN, oc \in Outcomes :
    \E o1 \in After(oc) : \E o2 \in After(o1) :
        \E w0 \in {World(chat, messages)} :
        \E w \in {get_ai_response(w0, message, use_context, oc, o1, o2)} :
            /\ Len(messages) + 2 <= MaxMsgs
            /\ chat' = w.chat
            /\ messages' = w.messages
            /\ last' = Answer("ai_response", w, 200)
            /\ UNCHANGED <<reqs, ctx, gen, settings, note, db>>

\* POST /api/chats/{id}/update_summary/
UpdateSummary ==
    \E o1 \in Outcomes : \E o2 \in After(o1) :
        \E w0 \in {World(chat, messages)} :
        \E w \in {update_chat_summary(w0, o1, o2)} :
            /\ chat' = w.chat
            /\ messages' = w.messages
            /\ last' = Answer("update_summary", w, 200)
            /\ UNCHANGED <<reqs, ctx, gen, settings, note, db>>

Next == AddMessage \/ AiResponse \/ UpdateSummary

Spec == Init /\ [][Next]_vars

(***************************************************************************)
(* Claims checked under Spec.                                              *)
(***************************************************************************)
\* the appends of the last request: one entry per add_message call it made
Appends == {last.appends[i] : i \in DOMAIN last.appends}

\* C1: in every state reached by a sequence of add_message, ai_response and
\* update_summary requests, whether they succeed or fail, the persisted
\* message_count equals the number of persisted messages of the chat.
C1_CountMatchesRows == chat.message_count = Len(messages)

\* a request failed after appends had been made and the count still matches
C1_Witness ==
    /\ last.status = 503
    /\ Len(messages) >= summarize_threshold
    /\ chat.message_count = Len(messages)

\* C4: an append runs the full summarization exactly when it was made with
\* auto_summarize and left message_count on a positive multiple of the threshold.
C4_TriggerExact ==
    \A a \in Appends :
        a.summarized <=>
            (a.auto /\ a.count > 0 /\ a.count % summarize_threshold = 0)

\* a turn of ai_response: the user append leaves the count off the multiple and
\* runs no summarization, the assistant append reaches it and summarizes
C4_Witness ==
    /\ last.op = "ai_response"
    /\ Len(last.appends) = 2
    /\ last.appends[1].count = summarize_threshold - 1
    /\ ~last.appends[1].summarized
    /\ last.appends[2].summarized

\* C5 (as claimed): when the summarization triggered by an append fails in the
\* provider, the request still succeeds and the appended message stays persisted
\* with message_count incremented.
C5_AutoSummaryFailureTolerated ==
    \A a \in Appends :
        a.failed =>
            /\ last.exc = "none"
            /\ Len(messages) >= a.count
            /\ chat.message_count >= a.count

\* C6: a provider failure during the full summarization, triggered by an append or
\* requested through update_summary, reaches the caller as AIServiceException.
C6_SummaryFailureSurfaces ==
    "summary" \in last.failed =>
        /\ last.exc = "AIServiceException"
        /\ last.status = 503

C6_Witness ==
    /\ last.op = "add_message"
    /\ "summary" \in last.failed
    /\ last.exc = "AIServiceException"

\* C7: when the completion call of a turn fails, get_ai_response raises
\* AIServiceException, the user message of the turn is persisted (one more row,
\* role user, message_count one higher) and no assistant message is.
C7_UserTurnKept ==
    [][(last'.op = "ai_response" /\ "completion" \in last'.failed) =>
          /\ last'.exc = "AIServiceException"
          /\ Len(messages') = Len(messages) + 1
          /\ SubSeq(messages', 1, Len(messages)) = messages
          /\ messages'[Len(messages')].role = "user"
          /\ chat'.message_count = chat.message_count + 1]_vars

C7_Witness ==
    /\ last.op = "ai_response"
    /\ "completion" \in last.failed
    /\ messages # <<>>
    /\ messages[Len(messages)].role = "user"

\* C12: an add_message request that finds summary and context_summary unset and
\* meets no provider failure leaves both unset while the chat holds fewer than
\* summarize_threshold messages, and leaves both non-empty when its message is
\* the summarize_threshold-th.
C12_SummaryAtThreshold ==
    [][(/\ last'.op = "add_message"
        /\ last'.exc = "none"
        /\ last'.failed = {}
        /\ chat.summary = None
        /\ chat.context_summary = None
        /\ Len(messages') <= summarize_threshold) =>
          IF Len(messages') < summarize_threshold
          THEN chat'.summary = None /\ chat'.context_summary = None
          ELSE Truthy(chat'.summary) /\ Truthy(chat'.context_summary)]_vars

\* the tenth message appended by add_message, both summaries made of ten messages
C12_Witness ==
    /\ last.op = "add_message"
    /\ last.failed = {}
    /\ Len(messages) = summarize_threshold
    /\ \A i \in 1..Len(messages) : messages[i].role = "user"
    /\ chat.summary = Text("summary", summarize_threshold, 600)
    /\ chat.context_summary = Text("context", summarize_threshold, 600)

\* C13 (as claimed): last_message_at is unset for a chat without messages and
\* otherwise equals the created_at of the most recently created message.
C13_LastMessageAtIsLatestCreated ==
    IF messages = <<>> THEN chat.last_message_at = 0
    ELSE chat.last_message_at = LatestCreated(messages)

\* C18: when the full summary was made and the condensing call failed, the call
\* does not fail, chat.summary is the new full summary (made of all messages) and
\* chat.context_summary is its first 500 characters.
C18_CondenseFallback ==
    ("context" \in last.failed /\ "summary" \notin last.failed) =>
        /\ last.exc = "none"
        /\ chat.summary.tag = "summary"
        /\ chat.summary.n = Len(messages)
        /\ Truthy(chat.summary)
        /\ last.op = "update_summary" => last.ret = chat.summary
        /\ chat.context_summary = Slice(chat.summary, CONTEXT_FALLBACK_CHARS)

\* a full summary of 600 characters stored, its first 500 kept as context
C18_Witness ==
    /\ last.op = "update_summary"
    /\ "context" \in last.failed
    /\ last.exc = "none"
    /\ chat.summary.len = 600
    /\ chat.context_summary = [chat.summary EXCEPT !.len = CONTEXT_FALLBACK_CHARS]

\* C19: when the full-summary call of an update_summary request fails, the
\* request raises AIServiceException and the persisted chat (summary,
\* context_summary, message_count) and its messages are as before the call.
C19_SummaryFailureFrame ==
    [][(last'.op = "update_summary" /\ "summary" \in last'.failed) =>
          /\ last'.exc = "AIServiceException"
          /\ chat' = chat
          /\ messages' = messages]_vars

\* the call failed on a chat that had a summary stored before: it is still there
C19_Witness ==
    /\ last.op = "update_summary"
    /\ "summary" \in last.failed
    /\ last.exc = "AIServiceException"
    /\ Truthy(chat.summary)
    /\ Truthy(chat.context_summary)

\* C20: update_chat_summary on a chat without messages returns the empty string,
\* raises nothing, makes no provider call and leaves the chat as it was.
C20_EmptyChatSummary ==
    [][(last'.op = "update_summary" /\ messages = <<>>) =>
          /\ last'.exc = "none"
          /\ last'.ret = Text("empty", 0, 0)
          /\ last'.calls = 0
          /\ chat' = chat
          /\ messages' = messages]_vars

C20_Witness ==
    /\ last.op = "update_summary"
    /\ messages = <<>>
    /\ last.ret = Text("empty", 0, 0)
    /\ last.calls = 0
    /\ last.runs = 1
    /\ chat = NewChat

\* C26: in every ai_response request the first append is the user message, made
\* without auto_summarize, and it runs no summarization whatever count it leaves,
\* a multiple of the threshold included; the second append, of the assistant
\* message, is made with auto_summarize and summarizes exactly on a multiple.
C26_UserAppendNeverSummarizes ==
    last.op = "ai_response" =>
        /\ Len(last.appends) \in {1, 2}
        /\ last.appends[1].role = "user"
        /\ ~last.appends[1].auto
        /\ ~last.appends[1].summarized
        /\ Len(last.appends) = 2 =>
              /\ last.appends[2].role = "assistant"
              /\ last.appends[2].auto
              /\ last.appends[2].summarized <=>
                    (last.appends[2].count % summarize_threshold = 0)

\* the user message of a turn was the tenth message of the chat: no summarization
\* ran in the turn, the assistant message being the eleventh
C26_Witness ==
    /\ last.op = "ai_response"
    /\ Len(last.appends) = 2
    /\ last.appends[1].count = summarize_threshold
    /\ ~last.appends[1].summarized
    /\ ~last.appends[2].summarized
    /\ last.runs = 0
    /\ last.status = 200

\* C35 (as claimed): a turn whose completion call succeeded returns the reply and
\* leaves the chat with two more messages, the user message and then the assistant
\* message carrying the reply, and message_count two higher, also when the
\* summarization triggered by the assistant append fails.
C35_TurnPersistsBoth ==
    (last.op = "ai_response" /\ Len(last.appends) = 2) =>
        /\ last.exc = "none"
        /\ Len(messages) = last.appends[2].count
        /\ chat.message_count = last.appends[2].count
        /\ messages[Len(messages) - 1].role = "user"
        /\ messages[Len(messages)].role = "assistant"
        /\ messages[Len(messages)].content = last.ret

\* C37 (as claimed): a request that met no provider failure and brought
\* message_count to a positive multiple of the threshold, by whichever append,
\* leaves a summary made of all the messages the chat held at that append.
C37_SummaryAtEveryMultiple ==
    (last.op \in {"add_message", "ai_response"} /\ last.exc = "none" /\ last.failed = {}) =>
        \A a \in Appends :
            (a.count > 0 /\ a.count % summarize_threshold = 0) =>
                /\ chat.summary.tag = "summary"
                /\ chat.summary.n >= a.count

\* C37 (amended): a request that met no provider failure and brought
\* message_count to a positive multiple of the threshold by an append made with
\* auto_summarize (an add_message call, the assistant message of a turn) leaves
\* a summary made of all the messages of the chat.
C37_SummaryAtMultipleOfAutoAppend ==
    (last.op \in {"add_message", "ai_response"} /\ last.exc = "none" /\ last.failed = {}) =>
        \A a \in Appends :
            (a.auto /\ a.count > 0 /\ a.count % summarize_threshold = 0) =>
                /\ chat.summary.tag = "summary"
                /\ chat.summary.n = a.count
                /\ chat.summary.n = Len(messages)

\* the assistant message of a turn was the tenth message: the summary stored is
\* made of ten messages
C37_Witness ==
    /\ last.op = "ai_response"
    /\ last.failed = {}
    /\ last.appends[2].count = summarize_threshold
    /\ chat.summary = Text("summary", summarize_threshold, 600)
    /\ messages[summarize_threshold].role = "assistant"

\* C39: a turn adds to the stored messages either its user message alone or its
\* user message followed by an assistant message; the assistant message is there
\* only if the completion call succeeded, it carries the text returned, and when
\* the call failed the user message is stored all the same.
C39_TurnOrder ==
    [][last'.op = "ai_response" =>
          LET added == SubSeq(messages', Len(messages) + 1, Len(messages'))
          IN  /\ Len(messages') > Len(messages)
              /\ SubSeq(messages', 1, Len(messages)) = messages
              /\ Len(added) \in {1, 2}
              /\ added[1].role = "user"
              /\ last'.appends[1].count = chat.message_count + 1
              /\ last'.calls >= 1
              /\ Len(added) = 2 =>
                    /\ "completion" \notin last'.failed
                    /\ added[2].role = "assistant"
                    /\ added[2].content = last'.ret
                    /\ added[2].created_at > added[1].created_at
              /\ "completion" \in last'.failed => Len(added) = 1]_vars

\* a turn on a chat that held messages: its two messages are the last two, the
\* assistant message created after the user message and carrying the reply
C39_Witness ==
    /\ last.op = "ai_response"
    /\ last.status = 200
    /\ Len(messages) > 2
    /\ messages[Len(messages) - 1].role = "user"
    /\ messages[Len(messages)].role = "assistant"
    /\ messages[Len(messages)].content = last.ret
    /\ messages[Len(messages)].created_at > messages[Len(messages) - 1].created_at

(***************************************************************************)
(* ConcSpec: two POST add_message requests on the same chat, run by two    *)
(* workers.  A request is a sequence of database statements; the database  *)
(* (PostgreSQL, READ COMMITTED) shows a transaction the committed rows and *)
(* its own writes, and makes an UPDATE of the chat row wait for the        *)
(* transaction that updated the row before it.                             *)
(*   reqs[r].mem     the Chat instance the request loaded                  *)
(*   reqs[r].own     the rows it inserted, not yet committed               *)
(*   reqs[r].dirty   the columns of the chat row it wrote, not yet         *)
(*                   committed                                             *)
(***************************************************************************)
\* the chat after n appends of user messages that ran no summarization
RECURSIVE Seeded(_)
Seeded(n) ==
    IF n = 0 THEN World(NewChat, <<>>)
    ELSE Only({append_and_count(w, "user", Only(UserContents)) : w \in {Seeded(n - 1)}})

NewRequest ==
    [pc |-> "start", mem |-> NewChat, own |-> <<>>, dirty |-> {}, exc |-> "none",
     status |-> 0, failed |-> {}]

ConcInit ==
    /\ db = NoDb
    /\ settings = DefaultSettings
    /\ note = NoNote
    /\ \E n \in 0..MaxInitMsgs :
         /\ chat = Seeded(n).chat
         /\ messages = Seeded(n).messages
    /\ last = Idle
    /\ reqs = [r \in Reqs |-> NewRequest]
    /\ ctx = NoCtx
    /\ gen = NoGen

\* timezone.now() in a worker: later than every timestamp any worker has seen
RECURSIVE LatestOf(_)
LatestOf(rs) ==
    IF rs = {} THEN 0
    ELSE LET r == CHOOSE x \in rs : TRUE
         IN  Max(Max(LatestCreated(reqs[r].own), reqs[r].mem.last_message_at),
                 LatestOf(rs \ {r}))
NowConc == 1 + Max(Max(LatestCreated(messages), chat.last_message_at), LatestOf(Reqs))

\* the chat row and the message rows as the transaction of request r sees them
TxChat(r) == SaveFields(chat, reqs[r].mem, reqs[r].dirty)
TxRows(r) == messages \o reqs[r].own
TxWorld(r) == [World(TxChat(r), TxRows(r)) EXCEPT !.mem = reqs[r].mem]

\* the chat row is locked by the uncommitted UPDATE of another request
RowLocked(r) == \E q \in Reqs \ {r} : reqs[q].dirty # {}

\* faulty variant: the INSERT runs outside the transaction, committed at once
TxInsert_autocommit(committed, own, row) ==
    [committed |-> Append(committed, row), own |-> own]

\* an INSERT inside transaction.atomic: the row stays with the transaction
TxInsert(committed, own, row) ==
    [committed |-> committed, own |-> Append(own, row)]

\* chat = self.get_object()
Load(r) ==
    /\ reqs[r].pc = "start"
    /\ reqs' = [reqs EXCEPT ![r].pc = "loaded", ![r].mem = chat]
    /\ UNCHANGED <<chat, messages, last, ctx, gen, settings, note, db>>

\* add_message: ChatMessage.objects.create, estimate_tokens, message.save
Insert(r) ==
    /\ reqs[r].pc = "loaded"
    /\ \E content \in UserContents :
       \E t \in {TxInsert(messages, reqs[r].own,
                          CreateMessage(<<>>, "user", content, NowConc)[1])} :
         /\ messages' = t.committed
         /\ reqs' = [reqs EXCEPT ![r].pc = "inserted", ![r].own = t.own]
    /\ UNCHANGED <<chat, last, ctx, gen, settings, note, db>>

\* add_message: chat.increment_message_count()
Increment(r) ==
    /\ reqs[r].pc = "inserted"
    /\ ~RowLocked(r)
    /\ reqs' = [reqs EXCEPT ![r].pc = "counted",
                            ![r].mem = increment_message_count(reqs[r].mem, NowConc),
                            ![r].dirty = {"message_count", "last_message_at"}]
    /\ UNCHANGED <<chat, messages, last, ctx, gen, settings, note, db>>

\* add_message: the threshold check fires; update_chat_summary runs in the
\* transaction and its failure leaves the atomic block: rollback, answer 503
Summarize(r) ==
    /\ reqs[r].pc = "counted"
    /\ SummarizeTrigger(TRUE, reqs[r].mem.message_count)
    /\ \E o1 \in Outcomes : \E o2 \in After(o1) :
       \E w0 \in {TxWorld(r)} :
       \E w \in {update_chat_summary(w0, o1, o2)} :
         reqs' = [reqs EXCEPT ![r] =
                    IF w.exc # "none"
                    THEN [@ EXCEPT !.pc = "done", !.own = <<>>, !.dirty = {},
                                   !.exc = w.exc, !.status = 503, !.failed = w.failed]
                    ELSE [@ EXCEPT !.pc = "summarized", !.mem = w.mem, !.failed = w.failed,
                                   !.dirty = @ \cup {"summary", "context_summary"}]]
    /\ UNCHANGED <<chat, messages, last, ctx, gen, settings, note, db>>

\* add_message returns: the transaction commits, the view answers 201
Commit(r) ==
    /\ \/ reqs[r].pc = "summarized"
       \/ /\ reqs[r].pc = "counted"
          /\ ~SummarizeTrigger(TRUE, reqs[r].mem.message_count)
    /\ messages' = messages \o reqs[r].own
    /\ chat' = SaveFields(chat, reqs[r].mem, reqs[r].dirty)
    /\ reqs' = [reqs EXCEPT ![r].pc = "done", ![r].own = <<>>, ![r].dirty = {},
                            ![r].status = 201]
    /\ UNCHANGED <<last, ctx, gen, settings, note, db>>

ConcNext ==
    \E r \in Reqs : Load(r) \/ Insert(r) \/ Increment(r) \/ Summarize(r) \/ Commit(r)

ConcSpec == ConcInit /\ [][ConcNext]_vars

(***************************************************************************)
(* Claims checked under ConcSpec.                                          *)
(***************************************************************************)
AllDone == \A r \in Reqs : reqs[r].pc = "done"

\* C2 (as claimed): once two concurrent add_message requests on the same chat have
\* both completed, the persisted message_count equals the number of persisted
\* messages: no increment is lost.
C2_NoLostIncrement == AllDone => chat.message_count = Len(messages)

\* C8: add_message is all-or-nothing on the persisted state: a step persists a
\* message row exactly when it persists the counter and timestamp saved by the
\* same request (its commit), and a request that failed persists none of them.
C8_AppendAtomic ==
    [][/\ (messages' # messages) <=> (chat'.last_message_at # chat.last_message_at)
       /\ (chat'.message_count # chat.message_count) => (messages' # messages)
       /\ (messages' # messages) =>
             \E r \in Reqs :
                 /\ reqs'[r].pc = "done" /\ reqs'[r].status = 201
                 /\ messages' = messages \o reqs[r].own
                 /\ Len(reqs[r].own) = 1
                 /\ chat'.message_count = reqs[r].mem.message_count
                 /\ chat'.last_message_at = reqs[r].mem.last_message_at
       /\ \A r \in Reqs :
             (reqs'[r].pc = "done" /\ reqs'[r].status = 503 /\ reqs[r].pc # "done") =>
                 (messages' = messages /\ chat' = chat)]_vars

\* one request committed its append, the other failed in the summarization
C8_Witness ==
    /\ AllDone
    /\ \E r \in Reqs : reqs[r].status = 201
    /\ \E r \in Reqs : reqs[r].status = 503 /\ "summary" \in reqs[r].failed

(***************************************************************************)
(* CtxSpec: get_chat_context as a function of the chat it is given.  The   *)
(* chat holds any number of messages up to MaxHistory, created one after   *)
(* the other by add_message, stored in creation order or in the reverse    *)
(* order; its context_summary is null, empty or set.                       *)
(***************************************************************************)
\* the chat after n appends, messages of alternating roles, the i-th with content i
RECURSIVE History(_)
History(n) ==
    IF n = 0 THEN World(NewChat, <<>>)
    ELSE Only({append_and_count(w, IF n % 2 = 1 THEN "user" ELSE "assistant", Text("q", n, 9)) :
               w \in {History(n - 1)}})

Reverse(rows) == [i \in 1..Len(rows) |-> rows[Len(rows) + 1 - i]]

ContextSummaries == {None, Text("context", 0, 0), Text("context", 10, 300)}

CtxInit ==
    /\ db = NoDb
    /\ settings = DefaultSettings
    /\ note = NoNote
    /\ chat = NewChat
    /\ messages = <<>>
    /\ last = Idle
    /\ reqs = NoReqs
    /\ gen = NoGen
    /\ \E n \in 0..MaxHistory, inc \in BOOLEAN, cs \in ContextSummaries, rev \in BOOLEAN :
         ctx = [NoCtx EXCEPT
                  !.rows = IF rev THEN Reverse(History(n).messages) ELSE History(n).messages,
                  !.include_summary = inc, !.context_summary = cs]

\* GET /api/chats/{id}/context/
GetContext ==
    /\ ~ctx.done
    /\ ctx' = [ctx EXCEPT
                 !.done = TRUE,
                 !.out = get_chat_context([NewChat EXCEPT !.context_summary = ctx.context_summary,
                                                          !.message_count = Len(ctx.rows)],
                                          ctx.rows, ctx.include_summary)]
    /\ UNCHANGED <<chat, messages, last, reqs, gen, settings, note, db>>

\* GET /api/chats/{id}/history/
GetHistory ==
    /\ ~ctx.hdone
    /\ ctx' = [ctx EXCEPT !.hdone = TRUE, !.history = get_full_chat_history(ctx.rows)]
    /\ UNCHANGED <<chat, messages, last, reqs, gen, settings, note, db>>

\* get_ai_response building the context of a turn on the stored chat
TurnContext ==
    /\ ~ctx.tdone
    /\ \E user_message \in UserContents, use_context \in BOOLEAN :
       \E w \in {World([NewChat EXCEPT !.context_summary = ctx.context_summary,
                                       !.message_count = Len(ctx.rows)], ctx.rows)} :
         ctx' = [ctx EXCEPT !.tdone = TRUE,
                            !.turn = turn_context(w, user_message, use_context)]
    /\ UNCHANGED <<chat, messages, last, reqs, gen, settings, note, db>>

CtxNext == GetContext \/ GetHistory \/ TurnContext

CtxSpec == CtxInit /\ [][CtxNext]_vars

\* the entries of the result that stand for stored messages
HasSummaryEntry == ctx.include_summary /\ Truthy(ctx.context_summary)
MessageEntries == IF HasSummaryEntry THEN Tail(ctx.out) ELSE ctx.out
\* the k most recently created rows, oldest first, as context entries
MostRecent(rows, k) ==
    LET sorted == OrderByCreatedAt(rows)
        from == IF Len(sorted) > k THEN Len(sorted) - k + 1 ELSE 1
    IN  [i \in 1..(Len(sorted) - from + 1) |->
            [role |-> sorted[from + i - 1].role, content |-> sorted[from + i - 1].content]]

\* C3 (as claimed): for a chat holding more than max_messages messages the context
\* holds exactly max_messages message entries, the max_messages most recently
\* created messages in ascending creation order.
C3_TailWindow ==
    (ctx.done /\ Len(ctx.rows) > max_context_messages) =>
        /\ Len(MessageEntries) = max_context_messages
        /\ MessageEntries = MostRecent(ctx.rows, max_context_messages)

\* the context_summary of the chat is set and was asked for
SummarySet ==
    /\ ctx.include_summary
    /\ ctx.context_summary # None
    /\ ctx.context_summary.len > 0
\* the creation time of the stored message an entry shows
CreatedOf(e) == ctx.rows[CHOOSE j \in 1..Len(ctx.rows) : ctx.rows[j].content = e.content].created_at

\* C21: the context starts with one system entry made of context_summary exactly
\* when include_summary is true and context_summary is set; every other entry
\* shows a stored message, and these come in ascending creation order.
C21_SummaryEntryIff ==
    ctx.done =>
        \E k \in {IF SummarySet THEN 1 ELSE 0} :
            /\ SummarySet =>
                  /\ Len(ctx.out) >= 1
                  /\ ctx.out[1].role = "system"
                  /\ ctx.out[1].content.of = ctx.context_summary.tag
                  /\ ctx.out[1].content.n = ctx.context_summary.n
                  /\ ctx.out[1].content.len = ctx.context_summary.len + SUMMARY_PREFIX_CHARS
            /\ \A i \in (k + 1)..Len(ctx.out) :
                  \E j \in 1..Len(ctx.rows) :
                      /\ ctx.rows[j].role = ctx.out[i].role
                      /\ ctx.rows[j].content = ctx.out[i].content
            /\ \A i \in (k + 1)..(Len(ctx.out) - 1) :
                  CreatedOf(ctx.out[i]) < CreatedOf(ctx.out[i + 1])

\* a summary entry followed by messages that sit in storage in reverse order
C21_Witness ==
    /\ ctx.done
    /\ SummarySet
    /\ Len(ctx.rows) >= 2
    /\ ~InCreatedOrder(ctx.rows)
    /\ ctx.out[1].role = "system"
    /\ ctx.out[2].content = Text("q", 1, 9)

\* C22: the context holds at most max_context_messages message entries and at
\* most one summary entry, max_context_messages + 1 entries in all; the context
\* of a turn, with the new user message added, holds at most one more.
C22_ContextBounded ==
    /\ ctx.done =>
          /\ Len(MessageEntries) <= max_context_messages
          /\ Len(ctx.out) <= max_context_messages + 1
    /\ ctx.tdone => Len(ctx.turn) <= max_context_messages + 2

\* the longest history: the bounds are met
C22_Witness ==
    /\ ctx.done /\ ctx.tdone
    /\ Len(ctx.rows) = MaxHistory
    /\ Len(ctx.out) = max_context_messages + 1
    /\ Len(ctx.turn) = max_context_messages + 2

\* C25: the history holds every stored message exactly once, in ascending order
\* of creation, whatever the order of the rows in storage and however many
\* there are.
C25_FullHistoryOrdered ==
    ctx.hdone =>
        /\ Len(ctx.history) = Len(ctx.rows)
        /\ \A j \in 1..Len(ctx.rows) :
              \E i \in 1..Len(ctx.history) :
                  /\ ctx.history[i].content = ctx.rows[j].content
                  /\ ctx.history[i].role = ctx.rows[j].role
                  /\ ctx.history[i].created_at = ctx.rows[j].created_at
        /\ \A i \in 1..(Len(ctx.history) - 1) :
              ctx.history[i].created_at < ctx.history[i + 1].created_at

\* more messages than the context window, stored in reverse order
C25_Witness ==
    /\ ctx.hdone
    /\ Len(ctx.rows) = MaxHistory
    /\ ~InCreatedOrder(ctx.rows)
    /\ Len(ctx.history) = MaxHistory
    /\ ctx.history[1].content = Text("q", 1, 9)

(***************************************************************************)
(* GenSpec: one call of GeminiSummarizer.generate_summary(content,         *)
(* max_length), for every configured max_retries up to MaxRetriesCfg.      *)
(*   gen.attempt   the loop variable; gen.errors the error of each failed  *)
(*   attempt; gen.sleeps the time.sleep calls made                         *)
(***************************************************************************)
GenErrors == {"timeout", "quota"}
GenOutcomes ==
    {[ok |-> TRUE, len |-> l, err |-> "none", pad |-> 0] : l \in ReplyLens}
        \cup {[ok |-> FALSE, len |-> 0, err |-> e, pad |-> 0] : e \in GenErrors}

\* the length of a content of 20 words that exceeds max_length * 5 characters
LongShortContentChars == 800

\* contents: empty, blank, of exactly 20 words (within and beyond
\* max_length * 5 characters), of 21 words
Contents ==
    {[tag |-> "note", n |-> 0, len |-> 0, words |-> 0],
     [tag |-> "note", n |-> 0, len |-> 3, words |-> 0],
     [tag |-> "note", n |-> 0, len |-> 119, words |-> SHORT_CONTENT_WORDS],
     [tag |-> "note", n |-> 0, len |-> LongShortContentChars, words |-> SHORT_CONTENT_WORDS],
     [tag |-> "note", n |-> 0, len |-> 125, words |-> SHORT_CONTENT_WORDS + 1]}

GenInit ==
    /\ db = NoDb
    /\ settings = DefaultSettings
    /\ note = NoNote
    /\ chat = NewChat
    /\ messages = <<>>
    /\ last = Idle
    /\ reqs = NoReqs
    /\ ctx = NoCtx
    /\ \E key \in BOOLEAN, content \in Contents, retries \in 0..MaxRetriesCfg :
         gen = [NoGen EXCEPT !.pc = "start", !.api_key = key, !.content = content,
                             !.max_length = DEFAULT_MAX_LENGTH, !.max_retries = retries]

Returned(source, len) ==
    [kind |-> "return", source |-> source, exc |-> "none", details |-> "none", len |-> len]
Raised(details) ==
    [kind |-> "raise", source |-> "none", exc |-> "AIServiceException", details |-> details,
     len |-> 0]

\* GeminiSummarizer._build_prompt
build_prompt(content, max_length) ==
    [kind |-> "note_summary", n |-> content.words, entries |-> <<>>]

\* GeminiSummarizer._extractive_summary: the first max_length words, "..." appended
\* when words were cut
extractive_summary(content, max_length) ==
    [words |-> IF content.words > max_length THEN max_length ELSE content.words,
     ellipsis |-> content.words > max_length]

\* faulty variant: the delay grows linearly
backoff_linear(attempt) == 2 * attempt

\* wait_time = 2 ** attempt
backoff(attempt) == 2 ^ attempt

\* generate_summary up to the retry loop: the guards and the short-content return
GenEnter ==
    /\ gen.pc = "start"
    /\ gen' =
         IF ~gen.api_key
         THEN [gen EXCEPT !.pc = "done", !.result = Raised("Please set GOOGLE_API_KEY")]
         ELSE IF gen.content.len = 0 \/ gen.content.words = 0
         THEN [gen EXCEPT !.pc = "done", !.result = Raised("Content must not be empty")]
         ELSE IF gen.content.words <= SHORT_CONTENT_WORDS
         THEN [gen EXCEPT !.pc = "done",
                          !.result = Returned("content",
                                        Slice(gen.content, gen.max_length * CHARS_PER_WORD).len)]
         ELSE [gen EXCEPT !.pc = "loop", !.attempt = 0]
    /\ UNCHANGED <<chat, messages, last, reqs, ctx, settings, note, db>>

\* one iteration of "for attempt in range(self.max_retries)": the call, and in
\* the except clause the sleep or the raise
GenAttempt ==
    /\ gen.pc = "loop"
    /\ gen.attempt < gen.max_retries
    /\ \E o \in GenOutcomes :
       \E r \in {call_gemini_api(build_prompt(gen.content, gen.max_length), o)} :
         gen' =
           IF r.exc = "none"
           THEN [gen EXCEPT !.pc = "done", !.result = Returned("completion", r.text.len)]
           ELSE IF gen.attempt < gen.max_retries - 1
           THEN [gen EXCEPT !.errors = Append(@, r.details),
                            !.sleeps = Append(@, backoff(gen.attempt)),
                            !.attempt = @ + 1]
           ELSE [gen EXCEPT !.errors = Append(@, r.details), !.pc = "done",
                            !.result = Raised(r.details)]
    /\ UNCHANGED <<chat, messages, last, reqs, ctx, settings, note, db>>

\* the loop ends without having returned or raised: the statement after it
GenFallThrough ==
    /\ gen.pc = "loop"
    /\ ~(gen.attempt < gen.max_retries)
    /\ gen' = [gen EXCEPT !.pc = "done",
                 !.result = Returned("extractive",
                               extractive_summary(gen.content, gen.max_length).words)]
    /\ UNCHANGED <<chat, messages, last, reqs, ctx, settings, note, db>>

GenNext == GenEnter \/ GenAttempt \/ GenFallThrough

GenSpec == GenInit /\ [][GenNext]_vars

\* the call runs on: nothing suspends generate_summary between its statements
GenLiveSpec == GenSpec /\ WF_vars(GenNext)

\* the call went into the retry loop (key present, content longer than 20 words)
GenLong == gen.api_key /\ gen.content.words > SHORT_CONTENT_WORDS
\* completion attempts made so far: the failed ones, and the successful one
GenAttempts ==
    Len(gen.errors) + (IF gen.result.source = "completion" THEN 1 ELSE 0)
\* the sleeps of a run of k failed attempts: 2^0, ..., 2^(k-2)
RECURSIVE Pow2(_)
Pow2(k) == IF k = 0 THEN 1 ELSE 2 * Pow2(k - 1)
ExpectedSleeps(k) == [i \in 1..(k - 1) |-> Pow2(i - 1)]

\* C9: when every attempt fails, generate_summary on content longer than 20 words
\* makes exactly max_retries attempts, sleeps 2^k seconds after failed attempt k
\* for k = 0 .. max_retries-2 and not after the last, then raises
\* AIServiceException with the error of the last attempt as detail; and the call
\* always ends.
C9_RetriesThenRaise ==
    /\ [](( /\ gen.pc = "done"
            /\ GenLong
            /\ Len(gen.errors) >= 1
            /\ GenAttempts = Len(gen.errors) ) =>
            ( /\ Len(gen.errors) = gen.max_retries
              /\ gen.sleeps = ExpectedSleeps(gen.max_retries)
              /\ gen.result.kind = "raise"
              /\ gen.result.exc = "AIServiceException"
              /\ gen.result.details = gen.errors[Len(gen.errors)] ))
    /\ <>(gen.pc = "done")

\* three attempts failed with different errors: slept 1s then 2s, raised the last
C9_Witness ==
    /\ gen.pc = "done"
    /\ gen.max_retries = 3
    /\ gen.errors = <<"timeout", "timeout", "quota">>
    /\ gen.sleeps = <<1, 2>>
    /\ gen.result.kind = "raise"

\* C10 (as claimed): whatever max_retries is configured, every value
\* generate_summary returns for content longer than 20 words is the text of a
\* successful completion call.
C10_NoSilentExtractive ==
    (gen.pc = "done" /\ GenLong /\ gen.result.kind = "return") =>
        gen.result.source = "completion"

GenResult(exc, details, text, source, attempt, errors, sleeps) ==
    [exc |-> exc, details |-> details, text |-> text, source |-> source,
     attempt |-> attempt, errors |-> errors, sleeps |-> sleeps]

\* "for attempt in range(self.max_retries)" from the iteration attempt on, and
\* the statement after the loop
RECURSIVE retry_loop(_, _, _, _, _, _, _)
retry_loop(max_retries, content, max_length, os, attempt, errors, sleeps) ==
    IF ~(attempt < max_retries)
    THEN GenResult("none", "none", extractive_summary(content, max_length), "extractive",
                   attempt, errors, sleeps)
    ELSE Only({IF r.exc = "none"
               THEN GenResult("none", "none", r.text, "completion", attempt, errors, sleeps)
               ELSE IF attempt < max_retries - 1
               THEN retry_loop(max_retries, content, max_length, os, attempt + 1,
                               Append(errors, r.details), Append(sleeps, backoff(attempt)))
               ELSE GenResult("AIServiceException", r.details, None, "none", attempt,
                              Append(errors, r.details), sleeps) :
               r \in {call_gemini_api(build_prompt(content, max_length), os[attempt + 1])}})

\* GeminiSummarizer.generate_summary(content, max_length) of a summarizer
\* constructed from the settings s
generate_summary(s, content, max_length, os) ==
    IF ~s.api_key
    THEN GenResult("AIServiceException", "Please set GOOGLE_API_KEY", None, "none", 0, <<>>, <<>>)
    ELSE IF content.len = 0 \/ content.words = 0
    THEN GenResult("AIServiceException", "Content must not be empty", None, "none", 0, <<>>, <<>>)
    ELSE IF content.words <= SHORT_CONTENT_WORDS
    THEN GenResult("none", "none", Slice(content, max_length * CHARS_PER_WORD), "content",
                   0, <<>>, <<>>)
    ELSE retry_loop(s.max_retries, content, max_length, os, 0, <<>>, <<>>)

\* provider calls a generate_summary call made
GenCalls(g) == Len(g.errors) + (IF g.source = "completion" THEN 1 ELSE 0)

\* the outcomes of the attempts of one call, one per possible attempt
OutcomeRuns == [1..MaxClientRetries -> Outcomes]

(***************************************************************************)
(* ClientSpec: the three paths to the provider client, each as one call,   *)
(* for a summarizer constructed with and without GEMINI_API_KEY:           *)
(* generate_summary, update_chat_summary and get_ai_response.  The chat    *)
(* paths call _call_gemini_api directly.  Without a key genai.configure    *)
(* has not run; what model.generate_content then does is the library's     *)
(* business (it raises, or it finds credentials in the environment), so    *)
(* the call draws its outcome as any other.                                *)
(***************************************************************************)
ClientInit ==
    /\ db = NoDb
    /\ \E key \in BOOLEAN, retries \in 0..MaxClientRetries : settings = Settings(key, retries)
    /\ \E n \in 0..(MaxClientMsgs - 2) :
         /\ chat = Seeded(n).chat
         /\ messages = Seeded(n).messages
    /\ last = Idle
    /\ reqs = NoReqs
    /\ ctx = NoCtx
    /\ gen = NoGen
    /\ note = NoNote

\* get_summarizer().generate_summary(content)
CallGenerateSummary ==
    \E content \in Contents, os \in OutcomeRuns :
    \E g \in {generate_summary(settings, content, DEFAULT_MAX_LENGTH, os)} :
        /\ gen' = [pc |-> "done", api_key |-> settings.api_key, content |-> content,
                   max_length |-> DEFAULT_MAX_LENGTH, max_retries |-> settings.max_retries,
                   attempt |-> g.attempt, errors |-> g.errors, sleeps |-> g.sleeps,
                   result |-> IF g.exc # "none" THEN Raised(g.details)
                              ELSE Returned(g.source,
                                            IF g.source = "extractive" THEN g.text.words
                                            ELSE g.text.len)]
        /\ last' = [Idle EXCEPT !.op = "generate_summary", !.exc = g.exc,
                                !.details = g.details, !.calls = GenCalls(g)]
        /\ UNCHANGED <<chat, messages, reqs, ctx, settings, note, db>>

\* ChatService.get_ai_response on a chat with room for the turn
ClientTurn ==
    /\ Len(messages) + 2 <= MaxClientMsgs
    /\ AiResponse

ClientNext == CallGenerateSummary \/ UpdateSummary \/ ClientTurn

ClientSpec == ClientInit /\ [][ClientNext]_vars

\* the last call went down a path that reaches the provider client
ReachesClient ==
    \/ last.op = "generate_summary"
    \/ last.op = "update_summary" /\ messages # <<>>
    \/ last.op = "ai_response"
\* the last call was given empty content
EmptyInput ==
    last.op = "generate_summary" /\ (gen.content.len = 0 \/ gen.content.words = 0)

\* C11 (as claimed): on every path that reaches the provider client
\* (generate_summary, update_chat_summary, get_ai_response) a call made with the
\* key absent or with empty content fails with AIServiceException, and no
\* provider call is attempted.
C11_KeyAbsentOrEmptyFails ==
    (ReachesClient /\ (~settings.api_key \/ EmptyInput)) =>
        /\ last.exc = "AIServiceException"
        /\ last.calls = 0

\* C34 (as claimed): a completion call of the chat orchestrator (the AI turn,
\* the full summary, the condensing call) that fails was attempted max_retries
\* times before the operation failed or, for the condensing call, before the
\* truncated summary was used (key configured).
C34_ChatCallsRetried ==
    (settings.api_key /\ last.op \in {"ai_response", "update_summary"}) =>
        /\ "completion" \in last.failed => last.calls >= settings.max_retries
        /\ "summary" \in last.failed /\ last.op = "update_summary" =>
               last.calls >= settings.max_retries
        /\ "context" \in last.failed /\ last.op = "update_summary" =>
               last.calls >= 1 + settings.max_retries

(***************************************************************************)
(* Notes (NoteViewSet of apps/notes/views.py).  The persisted row is the   *)
(* variable note; a request carries the fields it was sent, each given     *)
(* (<<v>>) or absent (<<>>).                                               *)
(***************************************************************************)
Titles == {"t1", "t2"}
\* contents of 10, 21 and 30 words
NoteContents ==
    {[tag |-> "note", n |-> 1, len |-> 60, words |-> 10],
     [tag |-> "note", n |-> 2, len |-> 125, words |-> SHORT_CONTENT_WORDS + 1],
     [tag |-> "note", n |-> 3, len |-> 180, words |-> 30]}
TagSets == {{}, {1}}

Optional(S) == {<<>>} \cup {<<x>> : x \in S}
Given(f) == f # <<>>

NoteData(title, content, tags, auto_summarize) ==
    [title |-> title, content |-> content, tags |-> tags, auto_summarize |-> auto_summarize]
NoData == NoteData(<<>>, <<>>, <<>>, FALSE)
\* POST /api/notes/: title and content are required, auto_summarize defaults to True
CreateData ==
    {NoteData(<<t>>, <<c>>, <<g>>, a) :
        t \in Titles, c \in NoteContents, g \in TagSets, a \in BOOLEAN}
\* PUT or PATCH /api/notes/{id}/: any of title, content, tag_ids
UpdateData ==
    {NoteData(t, c, g, FALSE) :
        t \in Optional(Titles), c \in Optional(NoteContents), g \in Optional(TagSets)}

NoteRow(title, content, summary, tags) ==
    [exists |-> TRUE, title |-> title, content |-> content, summary |-> summary, tags |-> tags]

\* Model.save() of a Note instance: every column takes the instance's value; the
\* tags are rows of their own, written by note.tags.set
SaveNote(row, obj) ==
    [row EXCEPT !.title = obj.title, !.content = obj.content, !.summary = obj.summary]

\* what a request did besides writing the note: whether generate_summary was
\* called and what came of it
NoteOutcome(n, attempted, exc, details, ret, calls) ==
    [note |-> n, attempted |-> attempted, exc |-> exc, details |-> details, ret |-> ret,
     calls |-> calls]
Summarized(n, g) ==
    NoteOutcome(n, TRUE, g.exc, g.details, IF g.exc = "none" THEN g.text ELSE None, GenCalls(g))

\* faulty variant: the failed summarization undoes the creation
auto_summary_failure_abort(n) == NoNote

\* the except clause of perform_create: log, do not fail the request
auto_summary_failure(n) == n

\* NoteViewSet.perform_create
perform_create(s, data, os) ==
    Only({IF ~data.auto_summarize THEN NoteOutcome(n, FALSE, "none", "none", None, 0)
          ELSE Only({Summarized(IF g.exc = "none" THEN SaveNote(n, [n EXCEPT !.summary = g.text])
                                ELSE auto_summary_failure(n), g) :
                     g \in {generate_summary(s, n.content, DEFAULT_MAX_LENGTH, os)}}) :
          n \in {NoteRow(data.title[1], data.content[1], None, data.tags[1])}})

\* serializer.save() of an update, on the instance: the fields given are set
ApplyData(obj, data) ==
    [obj EXCEPT !.title = IF Given(data.title) THEN data.title[1] ELSE @,
                !.content = IF Given(data.content) THEN data.content[1] ELSE @]
\* note.tags.set(tags_data) when tags were given
SetTags(row, data) == IF Given(data.tags) THEN [row EXCEPT !.tags = data.tags[1]] ELSE row

\* faulty variant: every update counts as a change of content
ContentChanged_always(old_content, new_content) == TRUE

\* "if old_content != note.content" in perform_update
ContentChanged(old_content, new_content) == old_content # new_content

\* perform_update after serializer.save(): the summary is cleared and the
\* instance saved again
clear_summary(row, instance, old_content) ==
    IF ContentChanged(old_content, instance.content)
    THEN SaveNote(row, [instance EXCEPT !.summary = None])
    ELSE row

\* NoteViewSet.update and perform_update on the stored row
perform_update(row, data) ==
    Only({clear_summary(SetTags(SaveNote(row, instance), data), instance, row.content) :
          instance \in {ApplyData(row, data)}})

\* faulty variant: a failed summarization discards the summary stored before
summarize_failure_clears(n) == [n EXCEPT !.summary = None]

\* the except clause of summarize: log, answer 503
summarize_failure(n) == n

\* NoteViewSet.summarize on the stored row
summarize(s, row, os) ==
    Only({Summarized(IF g.exc = "none" THEN SaveNote(row, [row EXCEPT !.summary = g.text])
                     ELSE summarize_failure(row), g) :
          g \in {generate_summary(s, row.content, DEFAULT_MAX_LENGTH, os)}})

(***************************************************************************)
(* NoteSpec: one note, one request at a time; every action is a whole      *)
(* request handler of NoteViewSet.                                         *)
(***************************************************************************)
NoteAnswer(op, data, before, out, status) ==
    [op |-> op, data |-> data, before |-> before, status |-> status,
     attempted |-> out.attempted, exc |-> out.exc, details |-> out.details, ret |-> out.ret,
     calls |-> out.calls]
NoteIdle ==
    NoteAnswer("none", NoData, NoNote, NoteOutcome(NoNote, FALSE, "none", "none", None, 0), 0)

NoteInit ==
    /\ db = NoDb
    /\ \E key \in BOOLEAN, retries \in 0..MaxClientRetries : settings = Settings(key, retries)
    /\ note = NoNote
    /\ last = NoteIdle
    /\ chat = NewChat
    /\ messages = <<>>
    /\ reqs = NoReqs
    /\ ctx = NoCtx
    /\ gen = NoGen

\* POST /api/notes/
NoteCreate ==
    /\ ~note.exists
    /\ \E data \in CreateData, os \in OutcomeRuns :
       \E out \in {perform_create(settings, data, os)} :
         /\ note' = out.note
         /\ last' = NoteAnswer("create", data, note, out, 201)
    /\ UNCHANGED <<chat, messages, reqs, ctx, gen, settings, db>>

\* PUT or PATCH /api/notes/{id}/
NoteUpdate ==
    /\ note.exists
    /\ \E data \in UpdateData :
         /\ note' = perform_update(note, data)
         /\ last' = NoteAnswer("update", data, note,
                               NoteOutcome(note, FALSE, "none", "none", None, 0), 200)
    /\ UNCHANGED <<chat, messages, reqs, ctx, gen, settings, db>>

\* POST /api/notes/{id}/summarize/
NoteSummarize ==
    /\ note.exists
    /\ \E os \in OutcomeRuns :
       \E out \in {summarize(settings, note, os)} :
         /\ note' = out.note
         /\ last' = NoteAnswer("summarize", NoData, note, out,
                               IF out.exc = "none" THEN 200 ELSE 503)
    /\ UNCHANGED <<chat, messages, reqs, ctx, gen, settings, db>>

\* DELETE /api/notes/{id}/
NoteDelete ==
    /\ note.exists
    /\ note' = NoNote
    /\ last' = NoteAnswer("delete", NoData, note,
                          NoteOutcome(note, FALSE, "none", "none", None, 0), 204)
    /\ UNCHANGED <<chat, messages, reqs, ctx, gen, settings, db>>

NoteNext == NoteCreate \/ NoteUpdate \/ NoteSummarize \/ NoteDelete

NoteSpec == NoteInit /\ [][NoteNext]_vars

(***************************************************************************)
(* Claims checked under NoteSpec.                                          *)
(***************************************************************************)
\* C14: an update that gives a content different from the stored one stores it
\* and leaves summary null; an update without content, or with the stored
\* content, leaves summary as it was.
C14_SummaryInvalidation ==
    [][(last'.op = "update") =>
          IF Given(last'.data.content) /\ last'.data.content[1] # note.content
          THEN note'.summary = None /\ note'.content = last'.data.content[1]
          ELSE note'.summary = note.summary /\ note'.content = note.content]_vars

\* a note with a summary was given a new title and new tags: the summary is kept
C14_Witness ==
    /\ last.op = "update"
    /\ ~Given(last.data.content)
    /\ Given(last.data.title) /\ last.data.title[1] # last.before.title
    /\ Given(last.data.tags) /\ last.data.tags[1] # last.before.tags
    /\ last.before.summary # None
    /\ note.summary = last.before.summary
    /\ note.title = last.data.title[1]

\* C16: creation always persists the note and answers 201; without
\* auto_summarize generate_summary is not called and summary is null; with
\* auto_summarize and generate_summary raising AIServiceException summary is
\* null; with auto_summarize and generate_summary returning, summary is the
\* value returned.
C16_CreateAlwaysPersists ==
    [][(last'.op = "create") =>
          /\ last'.status = 201
          /\ note'.exists
          /\ note'.title = last'.data.title[1]
          /\ note'.content = last'.data.content[1]
          /\ last'.attempted = last'.data.auto_summarize
          /\ ~last'.data.auto_summarize => (last'.calls = 0 /\ note'.summary = None)
          /\ (last'.data.auto_summarize /\ last'.exc = "AIServiceException") =>
                note'.summary = None
          /\ (last'.data.auto_summarize /\ last'.exc = "none") =>
                (note'.summary = last'.ret /\ note'.summary # None)]_vars

\* a note created with auto_summarize while every attempt at the provider failed
C16_Witness ==
    /\ last.op = "create"
    /\ last.data.auto_summarize
    /\ last.exc = "AIServiceException"
    /\ last.calls = MaxClientRetries
    /\ last.status = 201
    /\ note.exists
    /\ note.summary = None

\* C17: the summarize action always calls generate_summary; when it returns, the
\* value is stored as the note's summary and returned with 200; when it raises
\* AIServiceException the answer is 503 and the stored note is unchanged.
C17_ManualSummarize ==
    [][(last'.op = "summarize") =>
          /\ last'.attempted
          /\ note'.content = note.content
          /\ last'.exc = "none" =>
                (last'.status = 200 /\ note'.summary = last'.ret /\ note'.summary # None)
          /\ last'.exc = "AIServiceException" => (last'.status = 503 /\ note' = note)
          /\ last'.exc \in {"none", "AIServiceException"}]_vars

\* the summarization of a note that had a summary failed: 503, summary kept
C17_Witness ==
    /\ last.op = "summarize"
    /\ last.status = 503
    /\ last.calls >= 1
    /\ note.summary # None
    /\ note = last.before

(***************************************************************************)
(* NoteConcSpec: an update request and a summarize request on the same     *)
(* note, run by two workers and interleaved at the level of their database *)
(* statements.  No transaction spans a request (the views open none), so   *)
(* every save is committed when it is made.                                *)
(*   reqs[r].instance      the Note instance the request loaded            *)
(*   reqs[r].old_content   perform_update: the content read before saving  *)
(***************************************************************************)
NoteReqs == {"update", "summarize"}

NewNoteRequest(data) ==
    [pc |-> "start", data |-> data, instance |-> NoNote, old_content |-> None, status |-> 0,
     exc |-> "none"]

\* summary is a value generate_summary returns for content, with a key configured
GeneratedFrom(summary, content) ==
    \E retries \in 0..MaxClientRetries, os \in OutcomeRuns :
    \E g \in {generate_summary(Settings(TRUE, retries), content, DEFAULT_MAX_LENGTH, os)} :
        g.exc = "none" /\ g.text = summary

\* the note when the requests arrive: created earlier, with or without a summary
\* of its content
StoredNotes ==
    {NoteRow("t1", c, None, {}) : c \in NoteContents}
        \cup {NoteRow("t1", c, Text("note_summary", c.words, 600), {}) :
                c \in {x \in NoteContents : x.words > SHORT_CONTENT_WORDS}}

NoteConcInit ==
    /\ db = NoDb
    /\ \E key \in BOOLEAN, retries \in 1..MaxClientRetries : settings = Settings(key, retries)
    /\ note \in StoredNotes
    /\ \E data \in UpdateData :
         reqs = [r \in NoteReqs |-> NewNoteRequest(IF r = "update" THEN data ELSE NoData)]
    /\ last = NoteIdle
    /\ chat = NewChat
    /\ messages = <<>>
    /\ ctx = NoCtx
    /\ gen = NoGen

\* update: instance = self.get_object()
UpdateLoad ==
    /\ reqs["update"].pc = "start"
    /\ reqs' = [reqs EXCEPT !["update"].pc = "loaded", !["update"].instance = note]
    /\ UNCHANGED <<chat, messages, last, ctx, gen, settings, note, db>>

\* perform_update: note = self.get_object(); old_content = note.content
UpdateReadOld ==
    /\ reqs["update"].pc = "loaded"
    /\ reqs' = [reqs EXCEPT !["update"].pc = "read", !["update"].old_content = note.content]
    /\ UNCHANGED <<chat, messages, last, ctx, gen, settings, note, db>>

\* perform_update: note = serializer.save(); note.tags.set(tags_data)
UpdateSave ==
    /\ reqs["update"].pc = "read"
    /\ \E instance \in {ApplyData(reqs["update"].instance, reqs["update"].data)} :
         /\ note' = SetTags(SaveNote(note, instance), reqs["update"].data)
         /\ reqs' = [reqs EXCEPT !["update"].pc = "saved", !["update"].instance = instance]
    /\ UNCHANGED <<chat, messages, last, ctx, gen, settings, db>>

\* perform_update: the comparison, note.summary = None, note.save(); answer 200
UpdateClear ==
    /\ reqs["update"].pc = "saved"
    /\ note' = clear_summary(note, reqs["update"].instance, reqs["update"].old_content)
    /\ reqs' = [reqs EXCEPT !["update"].pc = "done", !["update"].status = 200]
    /\ UNCHANGED <<chat, messages, last, ctx, gen, settings, db>>

\* summarize: note = self.get_object()
SummarizeLoad ==
    /\ reqs["summarize"].pc = "start"
    /\ reqs' = [reqs EXCEPT !["summarize"].pc = "loaded", !["summarize"].instance = note]
    /\ UNCHANGED <<chat, messages, last, ctx, gen, settings, note, db>>

\* summarize: summary = summarizer.generate_summary(note.content); on
\* AIServiceException answer 503
SummarizeGenerate ==
    /\ reqs["summarize"].pc = "loaded"
    /\ \E os \in OutcomeRuns :
       \E g \in {generate_summary(settings, reqs["summarize"].instance.content,
                                  DEFAULT_MAX_LENGTH, os)} :
         reqs' = [reqs EXCEPT !["summarize"] =
                    IF g.exc # "none"
                    THEN [@ EXCEPT !.pc = "done", !.status = 503, !.exc = g.exc]
                    ELSE [@ EXCEPT !.pc = "generated", !.instance.summary = g.text]]
    /\ UNCHANGED <<chat, messages, last, ctx, gen, settings, note, db>>

\* summarize: note.summary = summary; note.save(); answer 200
SummarizeSave ==
    /\ reqs["summarize"].pc = "generated"
    /\ note' = SaveNote(note, reqs["summarize"].instance)
    /\ reqs' = [reqs EXCEPT !["summarize"].pc = "done", !["summarize"].status = 200]
    /\ UNCHANGED <<chat, messages, last, ctx, gen, settings, db>>

NoteConcNext ==
    \/ UpdateLoad \/ UpdateReadOld \/ UpdateSave \/ UpdateClear
    \/ SummarizeLoad \/ SummarizeGenerate \/ SummarizeSave

NoteConcSpec == NoteConcInit /\ [][NoteConcNext]_vars

NoteRequestsDone == \A r \in NoteReqs : reqs[r].pc = "done"

\* C15 (as claimed): whatever the interleaving of an update and a summarize
\* request on one note, once both are answered the stored summary is null or
\* one that generate_summary returns for the stored content, and the content
\* the update was given is the stored content (the summarize request has not
\* overwritten it).
C15_SummaryOfStoredContent ==
    NoteRequestsDone =>
        /\ note.summary = None \/ GeneratedFrom(note.summary, note.content)
        /\ Given(reqs["update"].data.content) =>
              note.content = reqs["update"].data.content[1]

(***************************************************************************)
(* ReadSpec: the read endpoints of ChatViewSet.  chat and messages are the *)
(* chat the detail endpoints are asked about; db.chats are the chats of    *)
(* all owners with the columns search reads (title, summary, the contents  *)
(* of their messages), as strings of characters.  A nullable column is a   *)
(* set: empty for NULL, {s} for the string s.                              *)
(***************************************************************************)
ReadUsers == {"u1", "u2"}
ReadRoles == {"user", "assistant"}
ReadContents == {Text("q", 0, 7), Text("q", 1, 12)}
Queries == {<<>>, <<"a", "B">>, <<"C">>}

Lower(ch) ==
    CASE ch = "A" -> "a"
      [] ch = "B" -> "b"
      [] ch = "C" -> "c"
      [] OTHER -> ch
LowerStr(s) == [i \in 1..Len(s) |-> Lower(s[i])]
\* needle occurs in haystack
Contains(haystack, needle) ==
    \E i \in 0..(Len(haystack) - Len(needle)) :
        SubSeq(haystack, i + 1, i + Len(needle)) = needle
\* column__icontains = query: never true of NULL
IContains(column, query) == \E s \in column : Contains(LowerStr(s), LowerStr(query))

SearchableChat(id, owner, title, summary, contents) ==
    [id |-> id, owner |-> owner, title |-> title, summary |-> summary, contents |-> contents]

\* chats LEFT OUTER JOIN chat_messages: one row per message of a chat, one row
\* with NULL message columns for a chat without messages
Join(chats) ==
    UNION {IF c.contents = <<>>
           THEN {[chat |-> c, msg |-> 0, content |-> {}]}
           ELSE {[chat |-> c, msg |-> i, content |-> {c.contents[i]}] :
                 i \in 1..Len(c.contents)} : c \in chats}

\* Q(title__icontains) | Q(summary__icontains) | Q(messages__content__icontains)
TextFilter(row, query) ==
    \/ IContains({row.chat.title}, query)
    \/ IContains(row.chat.summary, query)
    \/ IContains(row.content, query)

\* SELECT chats.* of the rows kept: how many times each chat is selected
Selected(rows) ==
    [c \in {r.chat : r \in rows} |-> Cardinality({r \in rows : r.chat = c})]

\* faulty variant: duplicates are kept
Distinct_none(selected) == selected

\* .distinct()
Distinct(selected) == [c \in DOMAIN selected |-> 1]

\* ChatService.search_chats(user, query)
search_chats(chats, user, query) ==
    Distinct(Selected({r \in Join(chats) : r.chat.owner = user /\ TextFilter(r, query)}))

\* ChatViewSet.get_queryset: the user's chats, narrowed by ?search= when given
get_queryset(chats, user, search) ==
    IF search # <<>>
    THEN Distinct(Selected({r \in Join({c \in chats : c.owner = user}) : TextFilter(r, search)}))
    ELSE [c \in {c \in chats : c.owner = user} |-> 1]

RECURSIVE SumTokens(_)
SumTokens(rows) ==
    IF rows = <<>> THEN 0 ELSE rows[1].tokens_used + SumTokens(Tail(rows))
CountRole(rows, role) == Cardinality({i \in 1..Len(rows) : rows[i].role = role})

\* ChatService.get_chat_statistics(chat)
get_chat_statistics(c, rows) ==
    Only({[total_messages |-> c.message_count,
           user_messages |-> CountRole(all, "user"),
           assistant_messages |-> CountRole(all, "assistant"),
           total_tokens |-> SumTokens(all),
           last_message_at |-> c.last_message_at] :
          all \in {DefaultOrdering(rows)}})

ReadAnswer(op, status, user, query, ret) ==
    [op |-> op, status |-> status, user |-> user, query |-> query, ret |-> ret]
ReadIdle == ReadAnswer("none", 0, "none", <<>>, <<>>)

ReadInit ==
    /\ settings = DefaultSettings
    /\ note = NoNote
    /\ chat = NewChat
    /\ messages = <<>>
    /\ last = ReadIdle
    /\ reqs = NoReqs
    /\ ctx = NoCtx
    /\ gen = NoGen
    /\ \E title \in {<<"A", "b">>, <<"c">>},
          summary \in {{}, {<<"x", "a", "b">>}},
          contents \in {<<>>, << <<"a", "b", "x">> >>, << <<"a", "b">>, <<"x", "A", "B">> >>,
                        << <<"c">>, <<"x">> >>},
          owner \in ReadUsers :
         db = [NoDb EXCEPT !.chats = {SearchableChat(1, "u1", title, summary, contents),
                                      SearchableChat(2, owner, <<"a", "b", "c">>, {}, <<>>)}]

\* POST /api/chats/{id}/add_message/, on a chat below the summarization threshold
ReadAppend ==
    \E role \in ReadRoles, content \in ReadContents, o1 \in Outcomes : \E o2 \in After(o1) :
        \E w0 \in {World(chat, messages)} :
        \E w \in {add_message(w0, role, content, TRUE, o1, o2)} :
            /\ Len(messages) < MaxReadMsgs
            /\ chat' = w.chat
            /\ messages' = w.messages
            /\ last' = ReadAnswer("add_message", IF w.exc = "none" THEN 201 ELSE 503,
                                  "none", <<>>, w.ret)
            /\ UNCHANGED <<reqs, ctx, gen, settings, note, db>>

\* GET /api/chats/{id}/context/
ChatContext ==
    /\ last' = ReadAnswer("context", 200, "none", <<>>, get_chat_context(chat, messages, TRUE))
    /\ UNCHANGED <<chat, messages, reqs, ctx, gen, settings, note, db>>

\* GET /api/chats/{id}/history/
ChatHistory ==
    /\ last' = ReadAnswer("history", 200, "none", <<>>, get_full_chat_history(messages))
    /\ UNCHANGED <<chat, messages, reqs, ctx, gen, settings, note, db>>

\* faulty variant: the request refreshes last_message_at and saves the chat
ChatStatistics_touching ==
    /\ last' = ReadAnswer("statistics", 200, "none", <<>>, get_chat_statistics(chat, messages))
    /\ chat' = [chat EXCEPT !.last_message_at = Now(messages, chat)]
    /\ UNCHANGED <<messages, reqs, ctx, gen, settings, note, db>>

\* GET /api/chats/{id}/statistics/
ChatStatistics ==
    /\ last' = ReadAnswer("statistics", 200, "none", <<>>, get_chat_statistics(chat, messages))
    /\ UNCHANGED <<chat, messages, reqs, ctx, gen, settings, note, db>>

\* GET /api/chats/search/?q=query
ChatSearch ==
    \E user \in ReadUsers, query \in Queries :
        /\ last' = IF query = <<>>
                   THEN ReadAnswer("search", 400, user, query, <<>>)
                   ELSE ReadAnswer("search", 200, user, query,
                                   search_chats(db.chats, user, query))
        /\ UNCHANGED <<chat, messages, reqs, ctx, gen, settings, note, db>>

\* GET /api/chats/?search=query
ChatList ==
    \E user \in ReadUsers, search \in Queries :
        /\ last' = ReadAnswer("list", 200, user, search, get_queryset(db.chats, user, search))
        /\ UNCHANGED <<chat, messages, reqs, ctx, gen, settings, note, db>>

ReadNext ==
    \/ ReadAppend \/ ChatContext \/ ChatHistory \/ ChatStatistics \/ ChatSearch \/ ChatList

ReadSpec == ReadInit /\ [][ReadNext]_vars

ReadOps == {"context", "history", "statistics", "search", "list"}

\* C23: a context, history, statistics, search or list request leaves the chat
\* row (summary, context_summary, message_count, last_message_at), every message
\* and every other stored row as it was.
C23_ReadsArePure ==
    [][last'.op \in ReadOps => (chat' = chat /\ messages' = messages /\ db' = db)]_vars

\* statistics were read of a chat holding messages, which is as the appends left it
C23_Witness ==
    /\ last.op = "statistics"
    /\ last.ret.total_messages = MaxReadMsgs
    /\ Len(messages) = MaxReadMsgs
    /\ chat.message_count = MaxReadMsgs
    /\ chat.last_message_at = messages[Len(messages)].created_at + 1

\* the chats of a user that a query matches on title, summary or a message
Matching(user, query) ==
    {c \in db.chats :
        /\ c.owner = user
        /\ \/ IContains({c.title}, query)
           \/ IContains(c.summary, query)
           \/ \E i \in 1..Len(c.contents) : IContains({c.contents[i]}, query)}

\* C24: a search with a non-empty query returns the chats of the asking user
\* whose title, summary or some message content contains the query, letter case
\* ignored: each of them once, and no chat of another user.
C24_SearchExactOnce ==
    (last.op \in {"search", "list"} /\ last.status = 200 /\ last.query # <<>>) =>
        /\ DOMAIN last.ret = Matching(last.user, last.query)
        /\ \A c \in DOMAIN last.ret : last.ret[c] = 1 /\ c.owner = last.user

\* the query matched the title and two messages of a chat of the user, and a chat
\* of another user: the answer is the one chat, once
C24_Witness ==
    /\ last.op = "search"
    /\ last.user = "u1"
    /\ last.query = <<"a", "B">>
    /\ \E c \in db.chats :
         /\ c.owner = "u1"
         /\ c.title = <<"A", "b">>
         /\ Len(c.contents) = 2
         /\ \A i \in 1..2 : IContains({c.contents[i]}, last.query)
         /\ DOMAIN last.ret = {c}
         /\ last.ret[c] = 1
    /\ \E c \in db.chats : c.owner = "u2" /\ IContains({c.title}, last.query)

\* t is the quotient of len by CHARS_PER_TOKEN, rounded down
FloorQuotient(t, len) == CHARS_PER_TOKEN * t <= len /\ len < CHARS_PER_TOKEN * (t + 1)
RECURSIVE SumOf(_)
SumOf(ns) == IF ns = <<>> THEN 0 ELSE ns[1] + SumOf(Tail(ns))

\* C28: every stored message has tokens_used equal to the number of characters of
\* its content divided by 4, rounded down, and the statistics of the chat report
\* as total_tokens the sum of these values over all its messages.
C28_TokenEstimate ==
    /\ \A i \in 1..Len(messages) :
         FloorQuotient(messages[i].tokens_used, messages[i].content.len)
    /\ last.op = "statistics" =>
         /\ last.ret.total_tokens = SumOf([i \in 1..Len(messages) |-> messages[i].tokens_used])
         /\ \E ts \in [1..Len(messages) -> 0..3] :
              /\ \A i \in 1..Len(messages) : FloorQuotient(ts[i], messages[i].content.len)
              /\ last.ret.total_tokens = SumOf(ts)

\* messages of 7 and of 12 characters: estimates 1 and 3, total 4
C28_Witness ==
    /\ last.op = "statistics"
    /\ Len(messages) = 2
    /\ messages[1].content.len = 7
    /\ messages[1].tokens_used = 1
    /\ messages[2].content.len = 12
    /\ messages[2].tokens_used = 3
    /\ last.ret.total_tokens = 4

(***************************************************************************)
(* ChatEditSpec: one chat from its creation on, through the requests of    *)
(* ChatViewSet that write it.  The chat row carries its title here.  The   *)
(* body of a create or update request may carry any field of the chat.     *)
(***************************************************************************)
ChatTitles == {"", "t1"}
\* f"Chat {timezone.now().strftime('%Y-%m-%d %H:%M')}"
DefaultTitle == "Chat now"
InjectedText == Text("injected", 0, 40)
InjectedCount == 7

ChatData(title, summary, context_summary, message_count) ==
    [title |-> title, summary |-> summary, context_summary |-> context_summary,
     message_count |-> message_count]
NoChatData == ChatData(<<>>, <<>>, <<>>, <<>>)
ChatDatas ==
    {ChatData(t, s, c, m) :
        t \in Optional(ChatTitles), s \in Optional({InjectedText}),
        c \in Optional({InjectedText}), m \in Optional({InjectedCount})}

\* the fields of ChatSerializer and ChatCreateSerializer that are not read-only
ChatWritable == {"title"}

\* faulty variant: the read-only fields are taken from the request
validated_data_all(data) == data

\* serializer.validated_data: what is_valid() keeps of the request body
validated_data(data) ==
    [f \in DOMAIN data |-> IF f \in ChatWritable THEN data[f] ELSE <<>>]

NoChat ==
    [exists |-> FALSE, title |-> "none", summary |-> None, context_summary |-> None,
     message_count |-> 0, last_message_at |-> 0]

\* Chat.objects.create(user=user, title=title): the other columns take their defaults
CreateChatRow(title) ==
    [exists |-> TRUE, title |-> title, summary |-> NewChat.summary,
     context_summary |-> NewChat.context_summary, message_count |-> NewChat.message_count,
     last_message_at |-> NewChat.last_message_at]

\* ChatService.create_chat(user, title)
create_chat(title) == CreateChatRow(IF title # "" THEN title ELSE DefaultTitle)

\* ModelSerializer.update: setattr for every validated field, then instance.save()
serializer_update(obj, validated) ==
    [obj EXCEPT
       !.title = IF Given(validated.title) THEN validated.title[1] ELSE @,
       !.summary = IF Given(validated.summary) THEN validated.summary[1] ELSE @,
       !.context_summary =
           IF Given(validated.context_summary) THEN validated.context_summary[1] ELSE @,
       !.message_count =
           IF Given(validated.message_count) THEN validated.message_count[1] ELSE @]

EditAnswer(op, status, runs, data) == [op |-> op, status |-> status, runs |-> runs, data |-> data]
EditIdle == EditAnswer("none", 0, 0, NoChatData)

ChatEditInit ==
    /\ db = NoDb
    /\ settings = DefaultSettings
    /\ note = NoNote
    /\ chat = NoChat
    /\ messages = <<>>
    /\ last = EditIdle
    /\ reqs = NoReqs
    /\ ctx = NoCtx
    /\ gen = NoGen

\* POST /api/chats/: ChatCreateSerializer, perform_create
ChatCreate ==
    \E data \in ChatDatas : \E v \in {validated_data(data)} :
        /\ ~chat.exists
        /\ chat' = create_chat(IF Given(v.title) THEN v.title[1] ELSE "")
        /\ messages' = <<>>
        /\ last' = EditAnswer("create", 201, 0, data)
        /\ UNCHANGED <<reqs, ctx, gen, settings, note, db>>

\* PUT or PATCH /api/chats/{id}/: ChatSerializer, perform_update
ChatUpdate ==
    \E data \in ChatDatas : \E v \in {validated_data(data)} :
        /\ chat.exists
        /\ chat' = serializer_update(chat, v)
        /\ last' = EditAnswer("update", 200, 0, data)
        /\ UNCHANGED <<messages, reqs, ctx, gen, settings, note, db>>

\* DELETE /api/chats/{id}/: the messages go with the chat
ChatDestroy ==
    /\ chat.exists
    /\ chat' = NoChat
    /\ messages' = <<>>
    /\ last' = EditAnswer("destroy", 204, 0, NoChatData)
    /\ UNCHANGED <<reqs, ctx, gen, settings, note, db>>

\* POST /api/chats/{id}/add_message/
EditAppend ==
    \E content \in UserContents, o1 \in Outcomes : \E o2 \in After(o1) :
        \E w0 \in {World(chat, messages)} :
        \E w \in {add_message(w0, "user", content, TRUE, o1, o2)} :
            /\ chat.exists
            /\ Len(messages) < MaxEditMsgs
            /\ chat' = w.chat
            /\ messages' = w.messages
            /\ last' = EditAnswer("add_message", IF w.exc = "none" THEN 201 ELSE 503,
                                  w.runs, NoChatData)
            /\ UNCHANGED <<reqs, ctx, gen, settings, note, db>>

\* POST /api/chats/{id}/update_summary/
EditUpdateSummary ==
    \E o1 \in Outcomes : \E o2 \in After(o1) :
        \E w0 \in {World(chat, messages)} :
        \E w \in {update_chat_summary(w0, o1, o2)} :
            /\ chat.exists
            /\ chat' = w.chat
            /\ messages' = w.messages
            /\ last' = EditAnswer("update_summary", IF w.exc = "none" THEN 200 ELSE 503,
                                  w.runs, NoChatData)
            /\ UNCHANGED <<reqs, ctx, gen, settings, note, db>>

ChatEditNext == ChatCreate \/ ChatUpdate \/ ChatDestroy \/ EditAppend \/ EditUpdateSummary

ChatEditSpec == ChatEditInit /\ [][ChatEditNext]_vars

\* C29: a create request leaves a chat with message_count 0, no message and
\* summary, context_summary and last_message_at unset, whatever its body carries;
\* summary and context_summary of an existing chat change only in a request that
\* ran update_chat_summary; an update request leaves summary, context_summary,
\* message_count and the messages as they were, whatever its body carries.
C29_SummaryOnlyByPolicy ==
    [][/\ last'.op = "create" =>
            /\ chat'.exists
            /\ chat'.message_count = 0
            /\ messages' = <<>>
            /\ chat'.summary = None
            /\ chat'.context_summary = None
            /\ chat'.last_message_at = 0
       /\ ( /\ chat.exists
            /\ chat'.exists
            /\ chat'.summary # chat.summary \/ chat'.context_summary # chat.context_summary ) =>
            /\ last'.op \in {"add_message", "update_summary"}
            /\ last'.runs > 0
       /\ last'.op = "update" =>
            /\ chat'.summary = chat.summary
            /\ chat'.context_summary = chat.context_summary
            /\ chat'.message_count = chat.message_count
            /\ chat'.last_message_at = chat.last_message_at
            /\ messages' = messages]_vars

\* an update carrying a title, a summary, a context_summary and a message_count
\* was applied to a chat of ten messages summarized by the tenth append: the title
\* is the new one, the rest is as the summarization left it
C29_Witness ==
    /\ last.op = "update"
    /\ last.data = ChatData(<<"t1">>, <<InjectedText>>, <<InjectedText>>, <<InjectedCount>>)
    /\ chat.title = "t1"
    /\ chat.message_count = summarize_threshold
    /\ Len(messages) = summarize_threshold
    /\ Truthy(chat.summary)
    /\ chat.summary # InjectedText
    /\ Truthy(chat.context_summary)
    /\ chat.context_summary # InjectedText

(***************************************************************************)
(* TagSpec: the tags of two users through TagViewSet (create, update,      *)
(* destroy), one request at a time.  db.tags are the rows of the tags      *)
(* table; db.chats stays empty.                                            *)
(***************************************************************************)
TagUsers == {"u1", "u2"}
\* valid names: not blank, at most 50 characters
TagNames == {"a", "b", "c"}

TagRow(id, owner, name) == [id |-> id, owner |-> owner, name |-> name]

\* UniqueValidator(queryset=Tag.objects.all()) of the field name, which
\* ModelSerializer derives from unique=True; on update the instance is excluded
unique_validator(tags, instance_id, name) ==
    ~\E t \in tags : t.name = name /\ t.id # instance_id

\* the constraints of the tags table that both the model and the migration
\* declare: unique_together (name, user)
unique_together(tags, row) ==
    ~\E t \in tags : t.name = row.name /\ t.owner = row.owner /\ t.id # row.id

\* TagSerializer.is_valid: name is the only writable field, user is not a field
\* of the serializer, so no validator looks at the pair (name, user)
tag_is_valid(tags, instance_id, name) == unique_validator(tags, instance_id, name)

NextTagId(tags) == 1 + Cardinality({i \in 1..MaxTagId : \E t \in tags : t.id >= i})

TagAnswer(op, status, user, name) == [op |-> op, status |-> status, user |-> user, name |-> name]
TagIdle == TagAnswer("none", 0, "none", "none")

TagInit ==
    /\ db = NoDb
    /\ settings = DefaultSettings
    /\ note = NoNote
    /\ chat = NewChat
    /\ messages = <<>>
    /\ last = TagIdle
    /\ reqs = NoReqs
    /\ ctx = NoCtx
    /\ gen = NoGen

\* POST /api/tags/: is_valid, perform_create: serializer.save(user=request.user)
TagCreate ==
    \E user \in TagUsers, name \in TagNames :
    \E row \in {TagRow(NextTagId(db.tags), user, name)} :
        /\ row.id <= MaxTagId
        /\ IF ~tag_is_valid(db.tags, 0, name)
           THEN /\ last' = TagAnswer("create", 400, user, name)
                /\ UNCHANGED db
           ELSE IF ~unique_together(db.tags, row)
           THEN /\ last' = TagAnswer("create", 500, user, name)
                /\ UNCHANGED db
           ELSE /\ last' = TagAnswer("create", 201, user, name)
                /\ db' = [db EXCEPT !.tags = @ \cup {row}]
        /\ UNCHANGED <<chat, messages, reqs, ctx, gen, settings, note>>

\* PUT or PATCH /api/tags/{id}/: get_object over the tags of request.user
TagUpdate ==
    \E user \in TagUsers, name \in TagNames :
    \E t \in {t \in db.tags : t.owner = user} :
        /\ IF ~tag_is_valid(db.tags, t.id, name)
           THEN /\ last' = TagAnswer("update", 400, user, name)
                /\ UNCHANGED db
           ELSE IF ~unique_together(db.tags, [t EXCEPT !.name = name])
           THEN /\ last' = TagAnswer("update", 500, user, name)
                /\ UNCHANGED db
           ELSE /\ last' = TagAnswer("update", 200, user, name)
                /\ db' = [db EXCEPT !.tags = (@ \ {t}) \cup {[t EXCEPT !.name = name]}]
        /\ UNCHANGED <<chat, messages, reqs, ctx, gen, settings, note>>

\* DELETE /api/tags/{id}/
TagDestroy ==
    \E user \in TagUsers :
    \E t \in {t \in db.tags : t.owner = user} :
        /\ last' = TagAnswer("destroy", 204, user, t.name)
        /\ db' = [db EXCEPT !.tags = @ \ {t}]
        /\ UNCHANGED <<chat, messages, reqs, ctx, gen, settings, note>>

TagNext == TagCreate \/ TagUpdate \/ TagDestroy

TagSpec == TagInit /\ [][TagNext]_vars

\* C30 (as claimed): no owner holds two tags of the same name, and a name may be
\* held by several owners: a create request with a valid name is refused only
\* when the asking owner holds a tag of that name already.
C30_UniquePerOwner ==
    /\ \A t1, t2 \in db.tags : (t1.owner = t2.owner /\ t1.name = t2.name) => t1 = t2
    /\ (last.op = "create" /\ last.status # 201) =>
          \E t \in db.tags : t.owner = last.user /\ t.name = last.name

(***************************************************************************)
(* PromptSpec: one request on a chat that holds any number of messages up  *)
(* to MaxPromptHistory, stored in creation order or in the reverse order.  *)
(* last keeps the prompts the request sent to the provider.  The provider  *)
(* may also answer with whitespace only.                                   *)
(***************************************************************************)
PromptOutcomes == Outcomes \cup {BlankReply}
PromptAfter(o) == IF Failed(o) THEN {o} ELSE PromptOutcomes

PromptAnswer(op, w, message, use_context) ==
    [op |-> op, exc |-> w.exc, ret |-> w.ret, failed |-> w.failed, prompts |-> w.prompts,
     appends |-> w.appends, message |-> message, use_context |-> use_context]
PromptIdle == PromptAnswer("none", World(NewChat, <<>>), None, FALSE)

PromptInit ==
    /\ db = NoDb
    /\ settings = DefaultSettings
    /\ note = NoNote
    /\ \E n \in 0..MaxPromptHistory, rev \in BOOLEAN :
         /\ chat = History(n).chat
         /\ messages = IF rev THEN Reverse(History(n).messages) ELSE History(n).messages
    /\ last = PromptIdle
    /\ reqs = NoReqs
    /\ ctx = NoCtx
    /\ gen = NoGen

\* POST /api/chats/{id}/ai_response/
PromptTurn ==
    \E message \in UserContents, use_context \in BOOLEAN, oc \in PromptOutcomes :
    \E o1 \in PromptAfter(oc) : \E o2 \in PromptAfter(o1) :
        \E w0 \in {World(chat, messages)} :
        \E w \in {get_ai_response(w0, message, use_context, oc, o1, o2)} :
            /\ last.op = "none"
            /\ chat' = w.chat
            /\ messages' = w.messages
            /\ last' = PromptAnswer("ai_response", w, message, use_context)
            /\ UNCHANGED <<reqs, ctx, gen, settings, note, db>>

\* POST /api/chats/{id}/add_message/
PromptAppend ==
    \E content \in UserContents, o1 \in PromptOutcomes : \E o2 \in PromptAfter(o1) :
        \E w0 \in {World(chat, messages)} :
        \E w \in {add_message(w0, "user", content, TRUE, o1, o2)} :
            /\ last.op = "none"
            /\ chat' = w.chat
            /\ messages' = w.messages
            /\ last' = PromptAnswer("add_message", w, content, FALSE)
            /\ UNCHANGED <<reqs, ctx, gen, settings, note, db>>

\* POST /api/chats/{id}/update_summary/
PromptUpdateSummary ==
    \E o1 \in PromptOutcomes : \E o2 \in PromptAfter(o1) :
        \E w0 \in {World(chat, messages)} :
        \E w \in {update_chat_summary(w0, o1, o2)} :
            /\ last.op = "none"
            /\ chat' = w.chat
            /\ messages' = w.messages
            /\ last' = PromptAnswer("update_summary", w, None, FALSE)
            /\ UNCHANGED <<reqs, ctx, gen, settings, note, db>>

PromptNext == PromptTurn \/ PromptAppend \/ PromptUpdateSummary

PromptSpec == PromptInit /\ [][PromptNext]_vars

\* C36 (as claimed): in the prompt of a turn the new user message is the last
\* entry and occurs once; without use_context it is the only entry.
C36_UserMessageOnce ==
    (last.op = "ai_response" /\ last.prompts # <<>>) =>
        LET entries == last.prompts[1].entries
        IN  /\ last.prompts[1].kind = "reply"
            /\ entries # <<>>
            /\ entries[Len(entries)] = [role |-> "USER", content |-> last.message]
            /\ Cardinality({i \in 1..Len(entries) : entries[i].content = last.message}) = 1
            /\ ~last.use_context => Len(entries) = 1

\* C38 (as claimed): summary and context_summary of the stored chat are set
\* together, and a set context_summary is the condensed text made of the stored
\* summary or the first 500 characters of it.
C38_SummariesSetTogether ==
    /\ Truthy(chat.context_summary) <=> Truthy(chat.summary)
    /\ Truthy(chat.context_summary) =>
          \/ chat.context_summary.tag = "context" /\ chat.context_summary.n = chat.summary.n
          \/ /\ chat.context_summary.tag = "summary"
             /\ chat.context_summary.n = chat.summary.n
             /\ chat.context_summary.len <= CONTEXT_FALLBACK_CHARS
             /\ chat.context_summary.len <= chat.summary.len

\* the appends of the request that ran the full summarization
SummarizingAppends == {i \in DOMAIN last.appends : last.appends[i].summarized}
\* the stored messages in ascending creation order, as "ROLE: content" blocks
RenderedAscending ==
    LET sorted == OrderByCreatedAt(messages)
    IN  [i \in 1..Len(sorted) |-> [role |-> Upper(sorted[i].role), content |-> sorted[i].content]]

\* C40: the summarization triggered by an append is given every message of the
\* chat, the appended one included and last, in ascending creation order, each as
\* its upper-case role and its content; its result is stored as summary, and the
\* condensing call that follows is given that summary.
C40_SummaryOverAllMessages ==
    \A i \in SummarizingAppends :
        LET a == last.appends[i]
            p == last.prompts[Len(last.prompts) - (IF "summary" \in last.failed THEN 0 ELSE 1)]
        IN  /\ p.kind = "summary"
            /\ Len(p.entries) = a.count
            /\ p.entries[a.count].role = Upper(a.role)
            /\ last.exc = "none" =>
                  /\ p.entries = RenderedAscending
                  /\ chat.summary.tag = "summary"
                  /\ chat.summary.n = a.count
                  /\ last.prompts[Len(last.prompts)].kind = "context"
                  /\ last.prompts[Len(last.prompts)].n = chat.summary.n

\* the twentieth message was appended to a chat stored in reverse order: the
\* prompt starts with the oldest message and ends with the new one
C40_Witness ==
    /\ last.op = "add_message"
    /\ last.exc = "none"
    /\ Len(messages) = 2 * summarize_threshold
    /\ ~InCreatedOrder(messages)
    /\ SummarizingAppends = {1}
    /\ last.prompts[1].entries[1].content = Text("q", 1, 9)
    /\ last.prompts[1].entries[2 * summarize_threshold].content = last.message
    /\ chat.summary.n = 2 * summarize_threshold

(***************************************************************************)
(* GeminiSummarizer._extractive_summary on concrete texts.  A text is the  *)
(* sequence of its characters; the characters are two letters and two      *)
(* kinds of whitespace.                                                    *)
(***************************************************************************)
MaxTextLen == 5
MaxWords == 2
Whitespace == {" ", "\t"}
TextChars == {"a", "b"} \cup Whitespace
Strings == UNION {[1..n -> TextChars] : n \in 0..MaxTextLen}
Ellipsis == <<".", ".", ".">>

\* str.split() from position i on: cur is the word being read, words the words
\* read; runs of whitespace separate words and yield no empty word
RECURSIVE split_from(_, _, _, _)
split_from(text, i, cur, words) ==
    IF i > Len(text)
    THEN IF cur = <<>> THEN words ELSE Append(words, cur)
    ELSE IF text[i] \in Whitespace
    THEN split_from(text, i + 1, <<>>, IF cur = <<>> THEN words ELSE Append(words, cur))
    ELSE split_from(text, i + 1, Append(cur, text[i]), words)

\* content.split()
split(text) == split_from(text, 1, <<>>, <<>>)

\* ' '.join(words)
RECURSIVE join(_)
join(words) ==
    IF words = <<>> THEN <<>>
    ELSE IF Len(words) = 1 THEN words[1]
    ELSE words[1] \o <<" ">> \o join(Tail(words))

\* words[:k] for k >= 0
Prefix(words, k) == SubSeq(words, 1, IF k < Len(words) THEN k ELSE Len(words))

\* faulty variant: the marker is appended also when exactly max_length words
\* were given
extractive_summary_text_ge(content, max_length) ==
    Only({IF Len(words) >= max_length
          THEN join(Prefix(words, max_length)) \o Ellipsis
          ELSE join(Prefix(words, max_length)) :
          words \in {split(content)}})

\* GeminiSummarizer._extractive_summary(content, max_length), character by
\* character
extractive_summary_text(content, max_length) ==
    Only({IF Len(words) > max_length
          THEN join(Prefix(words, max_length)) \o Ellipsis
          ELSE join(Prefix(words, max_length)) :
          words \in {split(content)}})

ExtAnswer(op, text, max_words, ret) ==
    [op |-> op, text |-> text, max_words |-> max_words, ret |-> ret]

ExtInit ==
    /\ db = NoDb
    /\ settings = DefaultSettings
    /\ note = NoNote
    /\ chat = NewChat
    /\ messages = <<>>
    /\ \E text \in Strings, max_words \in 0..MaxWords :
         last = ExtAnswer("none", text, max_words, <<>>)
    /\ reqs = NoReqs
    /\ ctx = NoCtx
    /\ gen = NoGen

\* self._extractive_summary(content, max_length)
ExtractiveSummary ==
    /\ last.op = "none"
    /\ last' = [last EXCEPT !.op = "extractive_summary",
                            !.ret = extractive_summary_text(last.text, last.max_words)]
    /\ UNCHANGED <<chat, messages, reqs, ctx, gen, settings, note, db>>

ExtNext == ExtractiveSummary

ExtSpec == ExtInit /\ [][ExtNext]_vars

\* the words of a text, stated without scanning: <<i, j>> is a word of s when
\* s[i..j] holds no whitespace and is bounded by whitespace or by the ends of s
WordSpans(s) ==
    {<<i, j>> \in (1..Len(s)) \X (1..Len(s)) :
        /\ i <= j
        /\ \A k \in i..j : s[k] \notin Whitespace
        /\ i = 1 \/ s[i - 1] \in Whitespace
        /\ j = Len(s) \/ s[j + 1] \in Whitespace}
\* the k-th word of s, k in 1..Cardinality(WordSpans(s))
WordAt(s, k) ==
    Only({SubSeq(s, sp[1], sp[2]) :
          sp \in {sp \in WordSpans(s) :
                     Cardinality({o \in WordSpans(s) : o[1] < sp[1]}) = k - 1}})
EndsWithEllipsis(s) == Len(s) >= 3 /\ SubSeq(s, Len(s) - 2, Len(s)) = Ellipsis
WithoutEllipsis(s) == IF EndsWithEllipsis(s) THEN SubSeq(s, 1, Len(s) - 3) ELSE s

\* C33: extractive_summary(text, max_words) is the first max_words words of text
\* joined by single spaces (no other whitespace, none leading or trailing), and
\* it ends with '...' exactly when text has more than max_words words.
C33_FirstWordsJoined ==
    (last.op = "extractive_summary") =>
        LET n    == Cardinality(WordSpans(last.text))
            kept == IF n > last.max_words THEN last.max_words ELSE n
            out  == WithoutEllipsis(last.ret)
        IN  /\ EndsWithEllipsis(last.ret) <=> n > last.max_words
            /\ Cardinality(WordSpans(out)) = kept
            /\ \A k \in 1..kept : WordAt(out, k) = WordAt(last.text, k)
            /\ \A i \in 1..Len(out) :
                   out[i] \in Whitespace =>
                       /\ out[i] = " "
                       /\ 1 < i /\ i < Len(out)
                       /\ out[i - 1] \notin Whitespace

\* two words separated by a run of mixed whitespace, one asked for
C33_Witness ==
    /\ last.op = "extractive_summary"
    /\ last.text = <<"a", "\t", " ", "b", " ">>
    /\ last.max_words = 1
    /\ last.ret = <<"a", ".", ".", ".">>

(***************************************************************************)
(* The boundary: MessageCreateSerializer, ChatAIRequestSerializer and      *)
(* NoteCreateSerializer (apps/notes/serializers.py) in front of            *)
(* ChatViewSet.add_message, ChatViewSet.ai_response and the creation of a  *)
(* note.  A field of the request body is absent (<<>>) or given (<<s>>)    *)
(* with s the sequence of its characters.  One request is served, on a     *)
(* chat that holds up to MaxBoundaryMsgs messages.                         *)
(***************************************************************************)
MaxInputLen == 2
MaxBoundaryMsgs == 3
InputChars == {"a"} \cup Whitespace
InputStrings == UNION {[1..n -> InputChars] : n \in 0..MaxInputLen}

RECURSIVE lstrip(_)
lstrip(s) == IF s # <<>> /\ Head(s) \in Whitespace THEN lstrip(Tail(s)) ELSE s
RECURSIVE rstrip(_)
rstrip(s) ==
    IF s # <<>> /\ s[Len(s)] \in Whitespace THEN rstrip(SubSeq(s, 1, Len(s) - 1)) ELSE s

\* faulty variant: nothing is removed
str_strip_none(s) == s

\* str.strip()
str_strip(s) == rstrip(lstrip(s))

FieldError == [ok |-> FALSE, value |-> <<>>]
FieldValue(value) == [ok |-> TRUE, value |-> value]

\* serializers.CharField() of a required field, allow_blank False and
\* trim_whitespace True by default: an absent or blank value is an error, a
\* given one is trimmed
CharField(data) ==
    IF ~Given(data) THEN FieldError
    ELSE IF data[1] = <<>> \/ str_strip(data[1]) = <<>> THEN FieldError
    ELSE FieldValue(str_strip(data[1]))

\* validate_content, validate_message, validate_title: "if not value or
\* len(value.strip()) == 0: raise ValidationError"
validate_not_empty(value) == ~(value = <<>> \/ Len(str_strip(value)) = 0)

\* the field through its CharField and then its validate_<field> method
run_field(data) ==
    Only({IF f.ok /\ validate_not_empty(f.value) THEN f ELSE FieldError :
          f \in {CharField(data)}})

\* the stored form of a validated text
MessageText(value) == Text("q", 0, Len(value))
NoteText(value) == [tag |-> "note", n |-> 1, len |-> Len(value), words |-> Len(split(value))]
NoteTitle(value) == "t1"

BoundaryAnswer(op, status, title, content, calls) ==
    [op |-> op, status |-> status, title |-> title, content |-> content, calls |-> calls]
BoundaryIdle == BoundaryAnswer("none", 0, <<>>, <<>>, 0)

BoundaryInit ==
    /\ db = NoDb
    /\ \E key \in BOOLEAN : settings = Settings(key, GEMINI_MAX_RETRIES)
    /\ note = NoNote
    /\ \E n \in 0..MaxBoundaryMsgs :
         /\ chat = History(n).chat
         /\ messages = History(n).messages
    /\ last = BoundaryIdle
    /\ reqs = NoReqs
    /\ ctx = NoCtx
    /\ gen = NoGen

\* POST /api/chats/{id}/add_message/ with the body {"content": ...}
BoundaryAppend ==
    /\ last.op = "none"
    /\ \E content \in Optional(InputStrings), role \in InputRoles :
       \E f \in {run_field(content)} :
           IF ~f.ok
           THEN /\ last' = BoundaryAnswer("add_message", 400, <<>>, content, 0)
                /\ UNCHANGED <<chat, messages, reqs, ctx, gen, settings, note, db>>
           ELSE \E o1 \in Outcomes : \E o2 \in After(o1) :
                \E w \in {add_message(World(chat, messages), role, MessageText(f.value),
                                      TRUE, o1, o2)} :
                    /\ chat' = w.chat
                    /\ messages' = w.messages
                    /\ last' = BoundaryAnswer("add_message", Answer("add_message", w, 201).status,
                                              <<>>, content, w.calls)
                    /\ UNCHANGED <<reqs, ctx, gen, settings, note, db>>

\* POST /api/chats/{id}/ai_response/ with the body {"message": ...}
BoundaryTurn ==
    /\ last.op = "none"
    /\ \E message \in Optional(InputStrings), use_context \in BOOLEAN :
       \E f \in {run_field(message)} :
           IF ~f.ok
           THEN /\ last' = BoundaryAnswer("ai_response", 400, <<>>, message, 0)
                /\ UNCHANGED <<chat, messages, reqs, ctx, gen, settings, note, db>>
           ELSE \E oc \in Outcomes : \E o1 \in After(oc) : \E o2 \in After(o1) :
                \E w \in {get_ai_response(World(chat, messages), MessageText(f.value),
                                          use_context, oc, o1, o2)} :
                    /\ chat' = w.chat
                    /\ messages' = w.messages
                    /\ last' = BoundaryAnswer("ai_response", Answer("ai_response", w, 200).status,
                                              <<>>, message, w.calls)
                    /\ UNCHANGED <<reqs, ctx, gen, settings, note, db>>

\* POST /api/notes/ with the body {"title": ..., "content": ...}
BoundaryNoteCreate ==
    /\ last.op = "none"
    /\ \E title \in Optional(InputStrings), content \in Optional(InputStrings),
          auto_summarize \in BOOLEAN :
       \E t \in {run_field(title)}, c \in {run_field(content)} :
           IF ~(t.ok /\ c.ok)
           THEN /\ last' = BoundaryAnswer("create", 400, title, content, 0)
                /\ UNCHANGED <<chat, messages, reqs, ctx, gen, settings, note, db>>
           ELSE \E os \in OutcomeRuns :
                \E out \in {perform_create(settings,
                                NoteData(<<NoteTitle(t.value)>>, <<NoteText(c.value)>>, <<{}>>,
                                         auto_summarize), os)} :
                    /\ ~note.exists
                    /\ note' = out.note
                    /\ last' = BoundaryAnswer("create", 201, title, content, out.calls)
                    /\ UNCHANGED <<chat, messages, reqs, ctx, gen, settings, db>>

BoundaryNext == BoundaryAppend \/ BoundaryTurn \/ BoundaryNoteCreate

BoundarySpec == BoundaryInit /\ [][BoundaryNext]_vars

\* the field was given, and empty or made of whitespace only
Blank(data) == Given(data) /\ \A i \in 1..Len(data[1]) : data[1][i] \in Whitespace

\* C32: a request whose text field (content of add_message, message of
\* ai_response, title or content of a note creation) is empty or whitespace only
\* is answered 400 and changes nothing: no message and no note is stored,
\* message_count stays, no provider call is made.
C32_BlankRejected ==
    [][(\/ last'.op \in {"add_message", "ai_response"} /\ Blank(last'.content)
        \/ last'.op = "create" /\ (Blank(last'.title) \/ Blank(last'.content)))
       => /\ last'.status = 400
          /\ last'.calls = 0
          /\ messages' = messages
          /\ chat' = chat
          /\ chat'.message_count = Len(messages)
          /\ note' = note]_vars

\* a turn asked with a message of a space and a tab on a chat that holds
\* messages: refused, the chat as it was
C32_Witness ==
    /\ last.op = "ai_response"
    /\ last.content = << <<" ", "\t">> >>
    /\ last.status = 400
    /\ last.calls = 0
    /\ Len(messages) > 0
    /\ chat.message_count = Len(messages)

(***************************************************************************)
(* Owner scoping of the reads: NoteViewSet.get_queryset,                   *)
(* ChatViewSet.get_queryset, get_object over them, and                     *)
(* ChatService.search_chats.  db.notes and db.chats hold rows of two       *)
(* users; a request is made by one of them.                                *)
(***************************************************************************)
ListedNote(id, owner, title, content, tags) ==
    [id |-> id, owner |-> owner, title |-> title, content |-> content, tags |-> tags]

\* the notes and the chats that may be stored
NotePool ==
    {ListedNote(1, "u1", <<"a", "b">>, <<"x">>, {1}),
     ListedNote(2, "u2", <<"A", "B">>, <<"c">>, {1}),
     ListedNote(3, "u2", <<"x">>, <<"a", "b", "c">>, {})}
ChatPool ==
    {SearchableChat(1, "u1", <<"a", "b">>, {}, << <<"c">> >>),
     SearchableChat(2, "u2", <<"A", "B">>, {<<"c">>}, <<>>),
     SearchableChat(3, "u2", <<"x">>, {}, << <<"a", "b">>, <<"C">> >>)}
PoolIds == {n.id : n \in NotePool} \cup {c.id : c \in ChatPool}
TagParams == Optional({1})

\* faulty variant: the notes of every user are searched
note_queryset_all_users(notes, user, search, tag_id) ==
    {n \in notes :
        /\ search # <<>> => (IContains({n.title}, search) \/ IContains({n.content}, search))
        /\ Given(tag_id) => tag_id[1] \in n.tags}

\* NoteViewSet.get_queryset: the user's notes, narrowed by ?search= and ?tag=
\* when given
note_queryset(notes, user, search, tag_id) ==
    {n \in {x \in notes : x.owner = user} :
        /\ search # <<>> => (IContains({n.title}, search) \/ IContains({n.content}, search))
        /\ Given(tag_id) => tag_id[1] \in n.tags}

\* get_object(): the row of the queryset with the primary key asked for, if any
get_object(queryset, pk) == {r \in queryset : r.id = pk}

OwnerAnswer(op, status, user, query, key, ret) ==
    [op |-> op, status |-> status, user |-> user, query |-> query, key |-> key, ret |-> ret]
OwnerIdle == OwnerAnswer("none", 0, "none", <<>>, <<>>, {})

OwnerInit ==
    /\ settings = DefaultSettings
    /\ note = NoNote
    /\ chat = NewChat
    /\ messages = <<>>
    /\ last = OwnerIdle
    /\ reqs = NoReqs
    /\ ctx = NoCtx
    /\ gen = NoGen
    /\ \E notes \in SUBSET NotePool, chats \in SUBSET ChatPool :
         db = [NoDb EXCEPT !.notes = notes, !.chats = chats]

\* GET /api/notes/?search=&tag=
OwnerNoteList ==
    \E user \in ReadUsers, search \in Queries, tag_id \in TagParams :
        /\ last' = OwnerAnswer("note_list", 200, user, search, tag_id,
                               note_queryset(db.notes, user, search, tag_id))
        /\ UNCHANGED <<chat, messages, reqs, ctx, gen, settings, note, db>>

\* GET /api/notes/{id}/
OwnerNoteRetrieve ==
    \E user \in ReadUsers, pk \in PoolIds :
    \E found \in {get_object(note_queryset(db.notes, user, <<>>, <<>>), pk)} :
        /\ last' = OwnerAnswer("note_retrieve", IF found = {} THEN 404 ELSE 200, user,
                               <<>>, <<pk>>, found)
        /\ UNCHANGED <<chat, messages, reqs, ctx, gen, settings, note, db>>

\* GET /api/chats/?search=
OwnerChatList ==
    \E user \in ReadUsers, search \in Queries :
        /\ last' = OwnerAnswer("chat_list", 200, user, search, <<>>,
                               DOMAIN get_queryset(db.chats, user, search))
        /\ UNCHANGED <<chat, messages, reqs, ctx, gen, settings, note, db>>

\* GET /api/chats/{id}/
OwnerChatRetrieve ==
    \E user \in ReadUsers, pk \in PoolIds :
    \E found \in {get_object(DOMAIN get_queryset(db.chats, user, <<>>), pk)} :
        /\ last' = OwnerAnswer("chat_retrieve", IF found = {} THEN 404 ELSE 200, user,
                               <<>>, <<pk>>, found)
        /\ UNCHANGED <<chat, messages, reqs, ctx, gen, settings, note, db>>

\* GET /api/chats/search/?q=query
OwnerChatSearch ==
    \E user \in ReadUsers, query \in Queries :
        /\ last' = IF query = <<>>
                   THEN OwnerAnswer("chat_search", 400, user, query, <<>>, {})
                   ELSE OwnerAnswer("chat_search", 200, user, query, <<>>,
                                    DOMAIN search_chats(db.chats, user, query))
        /\ UNCHANGED <<chat, messages, reqs, ctx, gen, settings, note, db>>

OwnerNext ==
    \/ OwnerNoteList \/ OwnerNoteRetrieve \/ OwnerChatList \/ OwnerChatRetrieve
    \/ OwnerChatSearch

OwnerSpec == OwnerInit /\ [][OwnerNext]_vars

\* what the request answers over the stored rows notes and chats
OwnerResult(notes, chats) ==
    CASE last.op = "note_list" -> note_queryset(notes, last.user, last.query, last.key)
      [] last.op = "note_retrieve" ->
             get_object(note_queryset(notes, last.user, <<>>, <<>>), last.key[1])
      [] last.op = "chat_list" -> DOMAIN get_queryset(chats, last.user, last.query)
      [] last.op = "chat_retrieve" ->
             get_object(DOMAIN get_queryset(chats, last.user, <<>>), last.key[1])
      [] last.op = "chat_search" ->
             IF last.query = <<>> THEN {} ELSE DOMAIN search_chats(chats, last.user, last.query)
      [] OTHER -> {}
OwnedBy(rows, user) == {r \in rows : r.owner = user}

\* C31: a list, retrieve or search request of a user answers only rows that the
\* user owns, and it would answer the same with any other notes and chats held
\* by the other users.
C31_ReadsOwnerScoped ==
    (last.op # "none") =>
        /\ \A r \in last.ret : r.owner = last.user
        /\ \A notes \in SUBSET NotePool, chats \in SUBSET ChatPool :
               (/\ OwnedBy(notes, last.user) = OwnedBy(db.notes, last.user)
                /\ OwnedBy(chats, last.user) = OwnedBy(db.chats, last.user))
               => OwnerResult(notes, chats) = last.ret

\* u1 lists the notes that contain "ab" while u2 holds two notes that contain
\* it: only the note of u1 is answered
C31_Witness ==
    /\ last.op = "note_list"
    /\ last.user = "u1"
    /\ last.query = <<"a", "B">>
    /\ last.key = <<>>
    /\ Cardinality({n \in db.notes : n.owner = "u2"}) = 2
    /\ Cardinality(last.ret) = 1
    /\ \A n \in last.ret : n.id = 1

====
